---- MODULE Spec2Model ----
(***************************************************************************)
(* A model of the evscript compiler core:                                  *)
(*   - the frame allocator (VariableTable) of src/src/compiler.rs,         *)
(*   - the environment builder compile_environment of src/src/compiler.rs, *)
(*   - the environment builder collect_envs / process_stmt / define_func   *)
(*     of src/src/compiler/envs.rs,                                        *)
(*   - the call lowering of compile_expression in src/src/compiler.rs,     *)
(*   - the expression constructors of src/src/expr.rs,                     *)
(*   - the type promotion Type::from of src/src/compiler.rs,               *)
(*   - the file database and RootsIter of src/src/compiler/input.rs.       *)
(* Each component has its own specification (SpecVT, SpecCE, SpecPS,       *)
(* SpecFn, SpecEx, SpecTy, SpecIn) over the variables it owns; the other   *)
(* variables stay at their initial value.                                  *)
(***************************************************************************)
EXTENDS Integers, Sequences, FiniteSets, TLC

VARIABLES
    \* ---- VariableTable (SpecVT, SpecFn) ----
    variables,          \* VariableTable.variables : [Option<Variable>; 256]
    vt_last,            \* the last operation on the table and what it returned
    vt_requested,       \* sum of the sizes passed to alloc so far
    vt_used,            \* sum of the sizes of the allocs that succeeded
    vt_ops,             \* number of operations performed after the prelude
    \* ---- compile / compile_environment (SpecCE) ----
    environment_table,  \* EnvironmentTable : env name -> Environment
    compiled_env,       \* the Environment under construction
    bytecode_index,     \* compile_environment's u8 counter
    output,             \* the lines written so far
    ce_pc,              \* "idle" | "building" | "failed"
    ce_err,             \* the Err(String) that ended the run, "" if none
    ce_stmts,           \* the statements of the environment under construction
    ce_before,          \* bytecode_index before the last statement
    ce_roots,           \* number of Root::Environment declarations begun
    ce_count,           \* number of statements processed after the prelude
    ce_root,            \* the top-level declaration compile is at, with the table
                        \* and the number of output items it started from
    \* ---- collect_envs / process_stmt (SpecPS) ----
    envs,               \* HashMap<Ident, Env>
    funcs,              \* Funcs of the environment under construction
    pool_size,          \* Option<NonZeroU16>, 0 for None
    id,                 \* process_stmt's u8 counter
    ps_pc,              \* "idle" | "building" | "failed" | "panicked"
    ps_err,             \* the Diagnostic that ended the run, "" if none
    ps_env,             \* name of the environment under construction
    ps_stmts,           \* the statements of the environment under construction
    ps_before,          \* id before the last statement
    ps_roots,           \* number of Root::Env declarations begun
    ps_count,           \* number of statements processed after the prelude
    \* ---- compile_function / compile_expression (SpecFn) ----
    fn_env,             \* the Environment the function is compiled against
    fn_out,             \* the lines written for the function
    fn_pc,              \* "running" | "failed" | "panicked"
    fn_last,            \* the last statement and what compiling it returned
    fn_count,           \* number of statements compiled after the prelude
    \* ---- Expr construction (SpecEx) ----
    ex_stack,           \* the Exprs built so far and not yet used as operands
    ex_tree,            \* for each of them, what it was built from
    ex_last,            \* the last constructor call: operands and result
    ex_count,            \* number of constructor calls
    \* ---- Type::from (SpecTy) ----
    ty_l,               \* the left operand type
    ty_r,               \* the right operand type
    ty_from,            \* what Type::from returned for (l, r), (r, l) and (l, l)
    ty_pc,              \* "idle" before the calls, "done" after them
    \* ---- FileDb / RootsIter (SpecIn) ----
    disk,               \* the source files that can be read: path -> parsed roots
    files,              \* FileDb.files : path -> roots of the loaded file
    file_stack,         \* RootsIter.file_stack : Vec<(String, usize)>
    in_ret,             \* what the calls of next() have returned, in order
    in_pc               \* "start" | "parsed" | "iterating" | "panicked" | "exited"

vtVars == <<variables, vt_last, vt_requested, vt_used, vt_ops>>
ceVars == <<environment_table, compiled_env, bytecode_index, output, ce_pc, ce_err,
           ce_stmts, ce_before, ce_roots, ce_count, ce_root>>
psVars == <<envs, funcs, pool_size, id, ps_pc, ps_err, ps_env, ps_stmts, ps_before,
           ps_roots, ps_count>>
fnVars == <<fn_env, fn_out, fn_pc, fn_last, fn_count>>
exVars == <<ex_stack, ex_tree, ex_last, ex_count>>
tyVars == <<ty_l, ty_r, ty_from, ty_pc>>
inVars == <<disk, files, file_stack, in_ret, in_pc>>
vars == <<vtVars, ceVars, psVars, fnVars, exVars, tyVars, inVars>>

\* ------------------------------------------------------------------------
\* Bounds of the model (not program constants).
\* ------------------------------------------------------------------------
\* Operations performed on one VariableTable after the prelude.
MaxAllocs == 5
\* Environment statements processed in one run after the prelude.
MaxStmts == 3
\* Function statements compiled in one run after the prelude.
MaxFnStmts == 2
MaxArgs == 2
\* Constructor calls made in one run, and Exprs waiting to be operands.
MaxExprCalls == 6
MaxExprStack == 3
\* Roots of the root file.
MaxRoots == 3

\* ------------------------------------------------------------------------
\* Program constants.
\* ------------------------------------------------------------------------
\* The frame: `variables: [Option<Variable>; 256]`, scanned `while i < 256`.
FrameSize == 256
\* u8 arithmetic of bytecode_index and id.
U8Modulus == 256

\* ========================================================================
\* Type (compiler.rs 113-132)
\* ========================================================================
Type(signed, size) == [signed |-> signed, size |-> size]

\* impl fmt::Display for Type: 'i' or 'u' followed by size * 8.
TypeDisplay(t) == (IF t.signed THEN "i" ELSE "u") \o ToString(t.size * 8)

\* A promotion that takes the sign of the left operand alone.
TypeFromLeftSign(l, r) ==
    [signed |-> l.signed,
     size   |-> IF l.size >= r.size THEN l.size ELSE r.size]

\* Type::from: the promotion of two operand types.
TypeFrom(l, r) ==
    [signed |-> l.signed \/ r.signed,
     size   |-> IF l.size >= r.size THEN l.size ELSE r.size]

\* The primitive types: u8 (1 byte) and u16 (2 bytes).
PrimitiveTypes == [u8 |-> Type(FALSE, 1), u16 |-> Type(FALSE, 2)]

\* ========================================================================
\* VariableTable (compiler.rs 147-232)
\* ========================================================================
\* Option<Variable>: None, or Some(Variable { name: Option<String>, t }).
None == [some |-> FALSE, named |-> FALSE, name |-> "", t |-> Type(FALSE, 0)]

\* VariableTable::new
NewTable == [i \in 0..(FrameSize - 1) |-> None]

Ok(v) == [ok |-> TRUE, val |-> v, err |-> ""]
Err(e) == [ok |-> FALSE, val |-> 0, err |-> e]

\* The positions the scans of alloc and lookup can take are
\* 0..(FrameSize + FrameSize): a scan leaves the frame by at most the
\* largest size of a variable.

\* f iterated FrameSize = 2^8 times. Every iteration of a scan that does
\* not end it advances i by at least 1 (sizes are >= 1), so a scan ends
\* within FrameSize iterations; a position where the scan has ended is a
\* fixed point of its step.
Twice(f) == [i \in DOMAIN f |-> f[f[i]]]
Iterated(f) == Twice(Twice(Twice(Twice(Twice(Twice(Twice(Twice(f))))))))

\* A scan that leaves one byte free after every variable it passes.
AllocSkipWide(var, i) == i + var.t.size + 1

\* The step of alloc's scan over an occupied slot: i += var.t.size.
AllocSkip(var, i) == i + var.t.size

\* An alloc that returns address 0 and stores nothing.
AllocUnstored(vs, t) == [ok |-> TRUE, val |-> 0, err |-> "", table |-> vs]

\* VariableTable::alloc: the result, and the table after the call. The
\* first None slot the scan reaches receives the variable, whatever the
\* size of t.
\* One iteration of the `while i < 256` loop at position i: an occupied
\* slot is skipped by its size; the loop ends on a None slot, or with
\* i >= 256.
\* (The table is bound once, as a value, before the scan reads it.)
alloc(vs, t) ==
    CHOOSE result \in
        {LET end == Iterated([i \in 0..(FrameSize + FrameSize) |->
                                 IF i < FrameSize /\ self[i].some
                                 THEN AllocSkip(self[i], i) ELSE i])[0] IN
         IF end < FrameSize
         THEN [ok |-> TRUE, val |-> end, err |-> "",
               table |-> [self EXCEPT ![end] = [None EXCEPT !.some = TRUE, !.t = t]]]
         ELSE [ok |-> FALSE, val |-> 0, err |-> "Out of variable space; a single function is limited to 256 bytes", table |-> self]
         : self \in {vs}} : TRUE

\* VariableTable::lookup. One iteration of its loop at position i ends on
\* a variable of that name; another variable is skipped by its size, a
\* None slot by 1.
lookup(vs, name) ==
    CHOOSE result \in
        {LET end == Iterated([i \in 0..(FrameSize + FrameSize) |->
                                 IF i >= FrameSize THEN i
                                 ELSE IF ~self[i].some THEN i + 1
                                 ELSE IF self[i].named /\ self[i].name = name THEN i
                                 ELSE i + self[i].t.size])[0] IN
         IF end < FrameSize THEN Ok(end) ELSE Err("Variable " \o name \o " does not exist")
         : self \in {vs}} : TRUE

\* VariableTable::name_of / type_of panic on a None slot.
SlotExists(vs, i) == vs[i].some
\* panic!("Variable index {i} does not exist")
IndexPanic(i) == "Variable index " \o ToString(i) \o " does not exist"

\* *vtable.name_of(i) = Some(name)
BindName(vs, i, name) == [vs EXCEPT ![i] = [@ EXCEPT !.named = TRUE, !.name = name]]

\* VariableTable::type_of
type_of(vs, i) == vs[i].t

\* ------------------------------------------------------------------------
\* SpecVT: one VariableTable under the operations the function compiler
\* performs on it: anonymous temporaries (alloc) and declarations
\* (alloc, then name_of(..) = Some(name)).
\* ------------------------------------------------------------------------
\* The variable names of the declarations.
VarNames == {"x", "y"}

\* The table after n anonymous u8 temporaries were allocated into vs.
RECURSIVE AllocTemps(_, _)
AllocTemps(vs, n) ==
    IF n = 0 THEN vs
    ELSE IF n = 1 THEN alloc(vs, PrimitiveTypes.u8).table
    ELSE CHOOSE r \in {AllocTemps(half, n - (n \div 2)) : half \in {AllocTemps(vs, n \div 2)}} : TRUE

\* The runs start on a fresh table, or on the table a function body of
\* FrameSize - MaxAllocs one-byte temporaries leaves behind.

NoOp == [op |-> "none", size |-> 0, name |-> "", ok |-> TRUE, addr |-> 0]

InitVTIdle ==
    /\ variables = NewTable
    /\ vt_last = NoOp
    /\ vt_requested = 0
    /\ vt_used = 0
    /\ vt_ops = 0


\* An Err from alloc is propagated with `?` and ends the function's
\* compilation: the operations below need vt_last.ok.
\* let result = vtable.alloc(t)?;   (an anonymous temporary)
AllocTemp(t) ==
    /\ vt_last.ok /\ vt_ops < MaxAllocs
    /\ LET r == alloc(variables, t) IN
        /\ variables' = r.table
        /\ vt_last' = [op |-> "alloc", size |-> t.size, name |-> "", ok |-> r.ok, addr |-> r.val]
        /\ vt_used' = IF r.ok THEN vt_used + t.size ELSE vt_used
    /\ vt_requested' = vt_requested + t.size
    /\ vt_ops' = vt_ops + 1

\* Statement::Declaration(t, name):
\*   let new_var = vtable.alloc(type)?; *vtable.name_of(new_var) = Some(name);
Declare(t, name) ==
    /\ vt_last.ok /\ vt_ops < MaxAllocs
    /\ LET r == alloc(variables, t) IN
        /\ variables' = IF r.ok THEN BindName(r.table, r.val, name) ELSE r.table
        /\ vt_last' = [op |-> "declare", size |-> t.size, name |-> name, ok |-> r.ok, addr |-> r.val]
        /\ vt_used' = IF r.ok THEN vt_used + t.size ELSE vt_used
    /\ vt_requested' = vt_requested + t.size
    /\ vt_ops' = vt_ops + 1

NextVT ==
    \* the types handed to alloc are u8 and u16
    \/ \E t \in {PrimitiveTypes.u8, PrimitiveTypes.u16} : AllocTemp(t) /\ UNCHANGED <<ceVars, psVars, fnVars, exVars, tyVars, inVars>>
    \/ \E t \in {PrimitiveTypes.u8, PrimitiveTypes.u16}, n \in VarNames :
          Declare(t, n) /\ UNCHANGED <<ceVars, psVars, fnVars, exVars, tyVars, inVars>>

\* ========================================================================
\* Definitions and environments (compiler.rs 8-13, the types::Definition
\* values compile_environment and compile_expression match on)
\* ========================================================================
\* types::DefinitionParam::Type(t) / Return(t)
ParamType(t) == [kind |-> "Type", t |-> t]
ParamReturn(t) == [kind |-> "Return", t |-> t]

\* types::Definition::Def { args, bytecode }
DefOf(args) ==
    [kind |-> "Def", args |-> args, bytecode |-> 0,
     target |-> "", target_args |-> <<>>, varargs |-> FALSE]
\* types::Definition::Alias { args, target, target_args }
AliasOf(args, target, target_args) ==
    [kind |-> "Alias", args |-> args, bytecode |-> 0,
     target |-> target, target_args |-> target_args, varargs |-> FALSE]
\* types::Definition::Macro { args, target, varargs }
MacroOf(args, target, varargs) ==
    [kind |-> "Macro", args |-> args, bytecode |-> 0,
     target |-> target, target_args |-> <<>>, varargs |-> varargs]

\* HashMap::new()
EmptyMap == [n \in {} |-> 0]
\* HashMap::insert: a later value replaces an earlier one of the same key.
Insert(m, k, v) == [n \in DOMAIN m \cup {k} |-> IF n = k THEN v ELSE m[n]]

\* Environment { name, definitions, pool }
NewEnvironment(name) == [name |-> name, definitions |-> EmptyMap, pool |-> 0]

\* The names of the Direct definitions of a definition map.
DirectNames(defs) == {n \in DOMAIN defs : defs[n].kind = "Def"}

\* ========================================================================
\* compile_environment (compiler.rs 234-318)
\* ========================================================================
BytecodeLimit(this_name) == "Hit bytecode limit in environment " \o this_name

\* u8::wrapping_add
wrapping_add(a, b) == Ok((a + b) % U8Modulus)

\* u8::checked_add
checked_add(a, b) == IF a + b < U8Modulus THEN Ok(a + b) ELSE Err("overflow")

\* writeln!(output, "def {this_name}@{def_name} equ {id}")
DefLine(this_name, def_name, n) ==
    [kind |-> "def", env |-> this_name, name |-> def_name, id |-> n]

\* types::Statement::Definition(name, def), lines 283-301: the `def .. equ`
\* line is written for every kind of definition, then a Def receives
\* bytecode_index and the counter is advanced with checked_add.
CEDefinition(env, index, name, def) ==
    LET line == DefLine(env.name, name, index)
        next == checked_add(index, 1)
    IN  IF def.kind = "Def"
        THEN IF next.ok
             THEN [ok |-> TRUE, err |-> "", lines |-> <<line>>, index |-> next.val,
                   env |-> [env EXCEPT !.definitions =
                               Insert(@, name, [def EXCEPT !.bytecode = index])]]
             ELSE [ok |-> FALSE, err |-> BytecodeLimit(env.name), lines |-> <<line>>,
                   index |-> index, env |-> env]
        ELSE [ok |-> TRUE, err |-> "", lines |-> <<line>>, index |-> index,
              env |-> [env EXCEPT !.definitions = Insert(@, name, def)]]

\* The rebased copy of one definition of the used environment, lines 263-276.
Rebased(index, def) ==
    IF def.kind = "Def"
    THEN LET sum == checked_add(index, def.bytecode) IN
         IF sum.ok THEN Ok([def EXCEPT !.bytecode = sum.val]) ELSE Err("overflow")
    ELSE Ok(def)

\* types::Statement::Use(name) on an existing environment, lines 256-281.
\* The loop walks other_env.definitions in the HashMap's order, which is
\* not specified: `lines` is the set of lines of a complete walk, and on an
\* overflow `before` are the lines that may have been written before the
\* walk reached an overflowing definition.
CEUse(env, index, other_env) ==
    LET defs == other_env.definitions
        over == {n \in DOMAIN defs : ~Rebased(index, defs[n]).ok}
        kept == DOMAIN defs \ over
        copy(n) == Rebased(index, defs[n]).val
        lineOf(n) == DefLine(env.name, n, copy(n).bytecode)
        ids == {index} \cup {copy(n).bytecode : n \in DirectNames(defs) \cap kept}
        greatest == CHOOSE m \in ids : \A n \in ids : n <= m
    IN  IF over = {}
        THEN [ok |-> TRUE, err |-> "", index |-> greatest,
              lines |-> {lineOf(n) : n \in DirectNames(defs)},
              before |-> {},
              env |-> [env EXCEPT !.definitions =
                          [n \in DOMAIN @ \cup DOMAIN defs |->
                              IF n \in DOMAIN defs THEN copy(n) ELSE @[n]]]]
        ELSE [ok |-> FALSE, err |-> BytecodeLimit(env.name), index |-> index,
              lines |-> {},
              before |-> {lineOf(n) : n \in DirectNames(defs) \cap kept},
              env |-> env]

\* expression.eval_const() of a pool size: the value of a literal, Err for an
\* expression that is no constant.
eval_const(expr) ==
    IF expr.kind = "Signed" THEN Ok(expr.value) ELSE Err("Expression is not constant")

\* The pool limit of compile_environment: `pool_size > 256`.
CEPoolLimit == 256

\* types::Statement::Pool(expression), lines 302-312.
CEPool(env, expr) ==
    LET size == eval_const(expr) IN
    IF ~size.ok THEN [ok |-> FALSE, err |-> size.err, env |-> env]
    ELSE IF size.val < 0
         THEN [ok |-> FALSE, err |-> "Pool size may not be negative", env |-> env]
    ELSE IF size.val > CEPoolLimit
         THEN [ok |-> FALSE, err |-> "Pool size is limited to 256 bytes", env |-> env]
    ELSE [ok |-> TRUE, err |-> "", env |-> [env EXCEPT !.pool = size.val]]

\* ------------------------------------------------------------------------
\* Environment::std (compiler.rs 16-89)
\* ------------------------------------------------------------------------
\* define!("return", 0), define!("yield", 1): ids 0 and 1, no alias.
StdPlain == <<"return", "yield">>
\* define!("<op>_u8", id) with sign_alias!("<op>_u8", "<op>_i8"), ids 2..21.
StdTyped == <<"put", "mov", "add", "sub", "mul", "div", "mod", "shl", "shr", "band",
              "bxor", "bor", "equ", "nequ", "lt", "gt", "lte", "gte", "land", "lor">>

StdEnvironment ==
    LET plain == {StdPlain[i] : i \in 1..Len(StdPlain)}
        u8s == {StdTyped[i] \o "_u8" : i \in 1..Len(StdTyped)}
        i8s == {StdTyped[i] \o "_i8" : i \in 1..Len(StdTyped)}
        idOf(n) ==
            IF n \in plain
            THEN (CHOOSE i \in 1..Len(StdPlain) : StdPlain[i] = n) - 1
            ELSE (CHOOSE i \in 1..Len(StdTyped) : StdTyped[i] \o "_u8" = n) + Len(StdPlain) - 1
        targetOf(n) == (CHOOSE i \in 1..Len(StdTyped) : StdTyped[i] \o "_i8" = n)
    IN  [name |-> "std",
         definitions |->
            [n \in plain \cup u8s \cup i8s |->
                IF n \in i8s
                THEN AliasOf(<<>>, StdTyped[targetOf(n)] \o "_u8", <<>>)
                ELSE [DefOf(<<>>) EXCEPT !.bytecode = idOf(n)]],
         pool |-> 0]

\* ------------------------------------------------------------------------
\* SpecCE: compile (compiler.rs 674-698) over Root::Environment declarations,
\* one action per statement of compile_environment's loop.
\* ------------------------------------------------------------------------
\* The names of the environments, in the order of their first declaration;
\* a declaration takes the next name, or one that was declared before.
EnvOrder == <<"A", "B">>

StmtDefinition(name, def) == [kind |-> "Definition", name |-> name, def |-> def, expr |-> [kind |-> "None"]]
StmtUse(name) == [kind |-> "Use", name |-> name, def |-> DefOf(<<>>), expr |-> [kind |-> "None"]]
StmtPool(expr) == [kind |-> "Pool", name |-> "", def |-> DefOf(<<>>), expr |-> expr]

\* Rpn::Signed(value) / Rpn::Variable(name)
RpnSigned(v) == [kind |-> "Signed", value |-> v]
RpnVariable(n) == [kind |-> "Variable", name |-> n]

\* The definitions an environment statement may make.
SimpleNames == {"f", "g", "h", "extra"}

\* The state of compile_environment after the statement `def <name>;`
\* from state p.
CEAfterDef(p, name) ==
    LET r == CEDefinition(p.env, p.index, name, DefOf(<<>>)) IN
    [env |-> r.env, index |-> r.index, out |-> p.out \o r.lines,
     stmts |-> Append(p.stmts, StmtDefinition(name, DefOf(<<>>)))]

\* The state n statements `def f;` after state p of an environment.
RECURSIVE CERepeat(_, _)
CERepeat(p, n) ==
    IF n = 0 THEN p
    ELSE IF n = 1 THEN CEAfterDef(p, "f")
    ELSE CHOOSE r \in {CERepeat(half, n - (n \div 2)) : half \in {CERepeat(p, n \div 2)}} : TRUE

CEFresh == [env |-> NewEnvironment(EnvOrder[1]), index |-> 0, out |-> <<>>, stmts |-> <<>>]
StdTable == [n \in {"std"} |-> StdEnvironment]

\* A run starts
\*  - before the first declaration, or
\*  - inside environment A after U8Modulus - 2 statements `def f;`, or
\*  - after the declaration `A { def f; def g; def h; }`.
CEInitStates ==
    LET long == CERepeat(CEFresh, U8Modulus - 2)
        fgh == CEAfterDef(CEAfterDef(CEAfterDef(CEFresh, "f"), "g"), "h")
    IN  {[table |-> StdTable, env |-> NewEnvironment(""), index |-> 0, out |-> <<>>,
          stmts |-> <<>>, before |-> 0, pc |-> "idle", roots |-> 0],
         [table |-> StdTable, env |-> long.env, index |-> long.index, out |-> long.out,
          stmts |-> long.stmts, before |-> long.index - 1, pc |-> "building", roots |-> 1],
         [table |-> Insert(StdTable, fgh.env.name, fgh.env), env |-> fgh.env,
          index |-> fgh.index, out |-> fgh.out, stmts |-> fgh.stmts,
          before |-> fgh.index - 1, pc |-> "idle", roots |-> 1]}

\* types::Function {environment, contents}
FunctionOf(environment, contents) == [environment |-> environment, contents |-> contents]

\* A top-level declaration (types::Root) with the table and the output
\* compile has when it reaches it.
RootOf(kind, name, func, table, out) ==
    [kind |-> kind, name |-> name, func |-> func, lines |-> Len(out), table |-> table]

InitCEIdle ==
    /\ environment_table = StdTable
    /\ compiled_env = NewEnvironment("")
    /\ bytecode_index = 0
    /\ output = <<>>
    /\ ce_pc = "idle"
    /\ ce_err = ""
    /\ ce_stmts = <<>>
    /\ ce_before = 0
    /\ ce_roots = 0
    /\ ce_count = 0
    /\ ce_root = RootOf("None", "", FunctionOf("", <<>>), StdTable, <<>>)


\* types::Root::Environment(name, env): compile_environment starts.
BeginEnvironment ==
    /\ ce_pc = "idle"
    /\ ce_roots < Len(EnvOrder)
    /\ \E k \in 1..(ce_roots + 1) :
          /\ compiled_env' = NewEnvironment(EnvOrder[k])
          /\ ce_root' = RootOf("Environment", EnvOrder[k], FunctionOf("", <<>>),
                               environment_table, output)
    /\ bytecode_index' = 0
    /\ ce_before' = 0
    /\ ce_stmts' = <<>>
    /\ ce_roots' = ce_roots + 1
    /\ ce_pc' = "building"
    /\ UNCHANGED <<environment_table, output, ce_err, ce_count>>

\* Ok(compiled_env), then environment_table.insert(name, new_env).
EndEnvironment ==
    /\ ce_pc = "building"
    /\ environment_table' = Insert(environment_table, compiled_env.name, compiled_env)
    /\ ce_pc' = "idle"
    /\ UNCHANGED <<compiled_env, bytecode_index, output, ce_err, ce_stmts, ce_before,
                   ce_roots, ce_count, ce_root>>

CEStep(stmt) ==
    /\ ce_pc = "building"
    /\ ce_count < MaxStmts
    /\ ce_stmts' = Append(ce_stmts, stmt)
    /\ ce_before' = bytecode_index
    /\ ce_count' = ce_count + 1
    /\ UNCHANGED <<environment_table, ce_roots, ce_root>>

\* An Err ends compile: the environment under construction is dropped.
CEFail(err) ==
    /\ ce_pc' = "failed"
    /\ ce_err' = err
    /\ UNCHANGED <<compiled_env, bytecode_index>>

CEDefinitionStmt(stmt) ==
    /\ CEStep(stmt)
    /\ LET r == CEDefinition(compiled_env, bytecode_index, stmt.name, stmt.def) IN
        /\ output' = output \o r.lines
        /\ IF r.ok
           THEN /\ compiled_env' = r.env
                /\ bytecode_index' = r.index
                /\ UNCHANGED <<ce_pc, ce_err>>
           ELSE CEFail(r.err)

CEUseStmt(stmt) ==
    /\ CEStep(stmt)
    /\ IF stmt.name \notin DOMAIN environment_table
       THEN /\ CEFail("Environment " \o stmt.name \o " does not exist")
            /\ UNCHANGED output
       ELSE LET r == CEUse(compiled_env, bytecode_index, environment_table[stmt.name]) IN
            IF r.ok
            THEN /\ compiled_env' = r.env
                 /\ bytecode_index' = r.index
                 /\ output' = Append(output, [kind |-> "use", lines |-> r.lines])
                 /\ UNCHANGED <<ce_pc, ce_err>>
            ELSE /\ CEFail(r.err)
                 /\ \E written \in SUBSET r.before :
                        output' = Append(output, [kind |-> "use", lines |-> written])

CEPoolStmt(stmt) ==
    /\ CEStep(stmt)
    /\ LET r == CEPool(compiled_env, stmt.expr) IN
        IF r.ok
        THEN /\ compiled_env' = r.env
             /\ UNCHANGED <<bytecode_index, ce_pc, ce_err>>
        ELSE CEFail(r.err)
    /\ UNCHANGED output

\* `_ => return Err(..)`: any other statement is not allowed in an environment.
CEOtherStmt ==
    /\ CEStep([kind |-> "Other", name |-> "", def |-> DefOf(<<>>), expr |-> [kind |-> "None"]])
    /\ CEFail("Statement is not allowed within environments.")
    /\ UNCHANGED output


\* ========================================================================
\* collect_envs, process_stmt, define_func (compiler/envs.rs)
\* ========================================================================
\* FuncKind::Normal { id } / Alias { target, target_args } / Macro { target }
FuncNormal(n) == [tag |-> "Normal", id |-> n, target |-> "", target_args |-> <<>>]

\* DefKind::Simple / Alias / Macro of an EnvStatementKind::Def
DefKindSimple == [tag |-> "Simple", target |-> "", target_args |-> <<>>]

\* The functions of fs a Normal kind clashes with (lines 172-185).
IdClashes(fs, kind) ==
    IF kind.tag = "Normal" THEN {o \in DOMAIN fs : fs[o].kind.tag = "Normal" /\ fs[o].kind.id = kind.id} ELSE {}

\* define_func (lines 165-202): the id clash is looked for first, then the
\* name must be vacant.
define_func(fs, name, args, kind) ==
    IF IdClashes(fs, kind) # {}
    THEN [ok |-> FALSE, funcs |-> fs,
          err |-> "Function " \o name \o " tries to have the same ID (" \o ToString(kind.id)
                  \o ") as " \o (CHOOSE o \in IdClashes(fs, kind) : TRUE)]
    ELSE IF name \in DOMAIN fs
         THEN [ok |-> FALSE, funcs |-> fs, err |-> "Redefinition of function " \o name]
         ELSE [ok |-> TRUE, funcs |-> Insert(fs, name, [args |-> args, kind |-> kind]), err |-> ""]

\* ========================================================================
\* Expr (expr.rs): an Expr is its vector of Ops; an OpRef is a 0-based
\* index into that vector.
\* ========================================================================
\* Op::Number(i64), Op::Variable(Ident)
OpNumber(n) == [op |-> "Number", n |-> n]
OpVariable(v) == [op |-> "Variable", name |-> v]
\* impl From<T> for Expr: `ops: vec![value.into()]`
ExprFrom(op) == <<op>>
\* `if let [Op::Number(n)] = &expr.ops[..]`
IsNumber(expr) == Len(expr) = 1 /\ expr[1].op = "Number"

\* The const_eval closures handed to the constructors: `|n| -n` for Neg and
\* `|lhs, rhs| lhs + rhs` for Add (the examples of unary_op and binary_op).
UnaryConstEval(operator, n) == IF operator = "Neg" THEN 0 - n ELSE n
BinaryConstEval(operator, p, q) == IF operator = "Add" THEN p + q ELSE p

\* Expr::unary_op (lines 124-136)
unary_op(expr, operator) ==
    IF IsNumber(expr)
    THEN <<OpNumber(UnaryConstEval(operator, expr[1].n))>>
    ELSE Append(expr, [op |-> operator, i |-> Len(expr)])

\* Expr::deref (lines 140-144)
deref(expr) == Append(expr, [op |-> "Deref", i |-> Len(expr)])

\* The ops of the last k Exprs of args, the last one first.
RECURSIVE ConcatReversed(_, _)
ConcatReversed(args, k) ==
    IF k = 0 THEN <<>>
    ELSE ConcatReversed(args, k - 1) \o args[Len(args) + 1 - k]

\* Expr::func_call (lines 70-105): arg_refs walks args.iter().rev() and
\* holds total_len - 1 after each; the ops are those of the first argument,
\* then those of the others from the last one down, then the call.
func_call(func, args) ==
    LET call == [op |-> "Call", func |-> func,
                 refs |-> [k \in 1..Len(args) |-> Len(ConcatReversed(args, k)) - 1]]
    IN  IF args = <<>> THEN <<call>>
        ELSE (args[1] \o ConcatReversed(args, Len(args) - 1)) \o <<call>>

\* A binary constructor that never folds.
BinaryOpUnfolded(lhs, rhs, operator) ==
    (lhs \o rhs) \o <<[op |-> operator, l |-> Len(lhs), r |-> Len(rhs)]>>

\* Expr::binary_op (lines 164-183)
binary_op(lhs, rhs, operator) ==
    IF IsNumber(lhs) /\ IsNumber(rhs)
    THEN <<OpNumber(BinaryConstEval(operator, lhs[1].n, rhs[1].n))>>
    ELSE (lhs \o rhs) \o <<[op |-> operator, l |-> Len(lhs), r |-> Len(rhs)]>>

\* Expr::const_eval of a pool size: Some(n) for an expression that is the
\* single terminal Number(n), None otherwise.
const_eval(expr) ==
    IF Len(expr) = 1 /\ expr[1].op = "Number" THEN Ok(expr[1].n) ELSE Err("None")

\* const MAX_SIZE: i64 = (u16::MAX - 1) as i64;
MAX_SIZE == 65534

\* EnvStatementKind::Pool { size } (lines 138-159); pool is the
\* Option<NonZeroU16>, with 0 for None.
PSPool(pool, expr) ==
    LET size == const_eval(expr) IN
    IF ~size.ok
    THEN [ok |-> FALSE, pool |-> pool, err |-> "This pool size is not computable at compile time!"]
    ELSE IF size.val > MAX_SIZE
         THEN [ok |-> FALSE, pool |-> pool,
               err |-> "A pool size of " \o ToString(size.val) \o " is larger than the maximum of "
                       \o ToString(MAX_SIZE)]
    ELSE IF size.val < 0
         THEN [ok |-> FALSE, pool |-> pool, err |-> "A pool size cannot be negative"]
    ELSE IF pool # 0
         THEN [ok |-> FALSE, pool |-> pool, err |-> "Redefinition of the pool size"]
    ELSE [ok |-> TRUE, pool |-> size.val + 1, err |-> ""]

\* EnvStatementKind::Use { target } (lines 125-136) on an existing target:
\* define_func of every function of the target, in the HashMap's order.
\* A function of the target fails on fs itself (an id or a name it shares
\* with fs): `failing` are the functions whose define_func returns Err when
\* the walk reaches them, `merged` the map after a walk without error.
PSUse(fs, target_funcs) ==
    LET failing == {n \in DOMAIN target_funcs :
                        ~define_func(fs, n, target_funcs[n].args, target_funcs[n].kind).ok}
    IN  [failing |-> failing,
         errs |-> {define_func(fs, n, target_funcs[n].args, target_funcs[n].kind).err :
                        n \in failing},
         merged |-> [n \in DOMAIN fs \cup DOMAIN target_funcs |->
                        IF n \in DOMAIN fs THEN fs[n] ELSE target_funcs[n]]]

\* ------------------------------------------------------------------------
\* SpecPS: collect_envs over Root::Env declarations, one action per
\* process_stmt call.
\* ------------------------------------------------------------------------
PSStmtDef(name, args, kind) ==
    [kind |-> "Def", name |-> name, args |-> args, defkind |-> kind, size |-> <<>>]

\* The state of process_stmt after the statement `def <name>;` from state p
\* (p.id < 255, the name and the id are new to p.funcs).
PSAfterDef(p, name) ==
    LET r == define_func(p.funcs, name, <<>>, FuncNormal(p.id)) IN
    [funcs |-> r.funcs, id |-> p.id + 1,
     stmts |-> Append(p.stmts, PSStmtDef(name, <<>>, DefKindSimple))]

\* The state n Simple definitions `def p<id>;` after state p of an environment.
RECURSIVE PSRepeat(_, _)
PSRepeat(p, n) ==
    IF n = 0 THEN p
    ELSE IF n = 1 THEN PSAfterDef(p, "p" \o ToString(p.id))
    ELSE CHOOSE r \in {PSRepeat(half, n - (n \div 2)) : half \in {PSRepeat(p, n \div 2)}} : TRUE

PSFresh == [funcs |-> EmptyMap, id |-> 0, stmts |-> <<>>]

\* A run starts
\*  - before the first declaration, or
\*  - inside environment A after U8Modulus - 1 Simple definitions of
\*    distinct names, or
\*  - after the declaration `A { def f; def g; def h; }`.
PSInitStates ==
    LET long == PSRepeat(PSFresh, U8Modulus - 1)
        fgh == PSAfterDef(PSAfterDef(PSAfterDef(PSFresh, "f"), "g"), "h")
    IN  {[envs |-> EmptyMap, funcs |-> EmptyMap, id |-> 0, env |-> "", stmts |-> <<>>,
          before |-> 0, pc |-> "idle", roots |-> 0],
         [envs |-> EmptyMap, funcs |-> long.funcs, id |-> long.id, env |-> EnvOrder[1],
          stmts |-> long.stmts, before |-> long.id - 1, pc |-> "building", roots |-> 1],
         [envs |-> Insert(EmptyMap, EnvOrder[1], [funcs |-> fgh.funcs, var_pool_size |-> 0]),
          funcs |-> fgh.funcs, id |-> fgh.id, env |-> EnvOrder[1], stmts |-> fgh.stmts,
          before |-> fgh.id - 1, pc |-> "idle", roots |-> 1]}

InitPSIdle ==
    /\ envs = EmptyMap
    /\ funcs = EmptyMap
    /\ pool_size = 0
    /\ id = 0
    /\ ps_pc = "idle"
    /\ ps_err = ""
    /\ ps_env = ""
    /\ ps_stmts = <<>>
    /\ ps_before = 0
    /\ ps_roots = 0
    /\ ps_count = 0


\* Root::Env(env_stmt): funcs, pool_size and id start afresh (lines 58-63).
PSBeginEnv ==
    /\ ps_pc = "idle"
    /\ ps_roots < Len(EnvOrder)
    /\ \E k \in 1..(ps_roots + 1) : ps_env' = EnvOrder[k]
    /\ funcs' = EmptyMap
    /\ pool_size' = 0
    /\ id' = 0
    /\ ps_before' = 0
    /\ ps_stmts' = <<>>
    /\ ps_roots' = ps_roots + 1
    /\ ps_pc' = "building"
    /\ UNCHANGED <<envs, ps_err, ps_count>>

\* The end of the body (lines 69-87): the name must be vacant in envs.
\* HashMap::with_capacity(env_stmt.body.len() - 1) panics on an empty body
\* (usize underflow, or a capacity overflow where the subtraction wraps).
PSEndEnv ==
    /\ ps_pc = "building"
    /\ IF ps_stmts = <<>>
       THEN /\ ps_pc' = "panicked"
            /\ UNCHANGED <<envs, ps_err>>
       ELSE IF ps_env \in DOMAIN envs
            THEN /\ ps_pc' = "failed"
                 /\ ps_err' = "Redefinition of environment " \o ps_env
                 /\ UNCHANGED envs
            ELSE /\ envs' = Insert(envs, ps_env,
                                   [funcs |-> funcs,
                                    var_pool_size |-> IF pool_size # 0 THEN pool_size - 1 ELSE 0])
                 /\ ps_pc' = "idle"
                 /\ UNCHANGED ps_err
    /\ UNCHANGED <<funcs, pool_size, id, ps_env, ps_stmts, ps_before, ps_roots, ps_count>>

PSStep(stmt) ==
    /\ ps_pc = "building"
    /\ ps_count < MaxStmts
    /\ ps_stmts' = Append(ps_stmts, stmt)
    /\ ps_before' = id
    /\ ps_count' = ps_count + 1
    /\ UNCHANGED <<envs, ps_env, ps_roots>>

PSFail(err) ==
    /\ ps_pc' = "failed"
    /\ ps_err' = err

\* define_func with the FuncKind process_stmt builds for the definition
\* (lines 105-120).
PSDefine(stmt, func_id) ==
    LET defkind == stmt.defkind
        kind == IF defkind.tag = "Simple" THEN FuncNormal(func_id)
                ELSE IF defkind.tag = "Alias"
                THEN [tag |-> "Alias", id |-> 0, target |-> defkind.target,
                      target_args |-> defkind.target_args]
                ELSE [tag |-> "Macro", id |-> 0, target |-> defkind.target,
                      target_args |-> <<>>]
        r == define_func(funcs, stmt.name, stmt.args, kind)
    IN
    IF r.ok
    THEN /\ funcs' = r.funcs
         /\ UNCHANGED <<ps_pc, ps_err>>
    ELSE /\ PSFail(r.err)
         /\ UNCHANGED funcs

\* EnvStatementKind::Def (lines 104-123). `*id += 1` on a u8 that holds 255
\* panics in a build with overflow checks and wraps to 0 in one without.
PSDefStmt(stmt) ==
    /\ PSStep(stmt)
    /\ UNCHANGED pool_size
    /\ IF stmt.defkind.tag = "Simple"
       THEN IF id + 1 < U8Modulus
            THEN /\ id' = id + 1
                 /\ PSDefine(stmt, id)
            ELSE \/ /\ ps_pc' = "panicked"
                    /\ UNCHANGED <<id, funcs, ps_err>>
                 \/ /\ id' = (id + 1) % U8Modulus
                    /\ PSDefine(stmt, id)
       ELSE /\ UNCHANGED id
            /\ PSDefine(stmt, id)

PSUseStmt(stmt) ==
    /\ PSStep(stmt)
    /\ UNCHANGED <<pool_size, id>>
    /\ IF stmt.name \notin DOMAIN envs
       THEN /\ PSFail("Unknown environment \"" \o stmt.name \o "\"")
            /\ UNCHANGED funcs
       ELSE LET r == PSUse(funcs, envs[stmt.name].funcs) IN
            IF r.failing = {}
            THEN /\ funcs' = r.merged
                 /\ UNCHANGED <<ps_pc, ps_err>>
            ELSE /\ \E e \in r.errs : PSFail(e)
                 /\ UNCHANGED funcs

PSPoolStmt(stmt) ==
    /\ PSStep(stmt)
    /\ UNCHANGED <<funcs, id>>
    /\ LET r == PSPool(pool_size, stmt.size) IN
        IF r.ok
        THEN /\ pool_size' = r.pool
             /\ UNCHANGED <<ps_pc, ps_err>>
        ELSE /\ PSFail(r.err)
             /\ UNCHANGED pool_size

NextPS ==
    \/ PSBeginEnv /\ UNCHANGED <<vtVars, ceVars, fnVars, exVars, tyVars, inVars>>
    \/ PSEndEnv /\ UNCHANGED <<vtVars, ceVars, fnVars, exVars, tyVars, inVars>>
    \* a Simple definition, an alias or a macro
    \/ \E stmt \in {PSStmtDef(n, <<>>, DefKindSimple) : n \in SimpleNames}
                    \cup {PSStmtDef("a", <<>>, [tag |-> "Alias", target |-> "f", target_args |-> <<>>]),
                          PSStmtDef("m", <<>>, [tag |-> "Macro", target |-> "text", target_args |-> <<>>])} :
          PSDefStmt(stmt) /\ UNCHANGED <<vtVars, ceVars, fnVars, exVars, tyVars, inVars>>
    \/ \E t \in {"A", "B"} :
          PSUseStmt([kind |-> "Use", name |-> t, args |-> <<>>, defkind |-> DefKindSimple,
                     size |-> <<>>])
          /\ UNCHANGED <<vtVars, ceVars, fnVars, exVars, tyVars, inVars>>
    \* a pool size: a Number around the limits, or `x + 1`
    \/ \E e \in {<<OpNumber(v)>> : v \in {-1, 0, 256, 65534, 65535}}
                 \cup {binary_op(ExprFrom(OpVariable("x")), ExprFrom(OpNumber(1)), "Add")} :
          PSPoolStmt([kind |-> "Pool", name |-> "", args |-> <<>>, defkind |-> DefKindSimple,
                      size |-> e])
          /\ UNCHANGED <<vtVars, ceVars, fnVars, exVars, tyVars, inVars>>


\* ========================================================================
\* compile_expression (compiler.rs 320-612)
\* ========================================================================
\* The type table of compile (lines 679-681) holds u8 alone.
TypeTable == [u8 |-> Type(FALSE, 1)]

\* TypeTable::lookup
TypeLookup(name) ==
    IF name \in DOMAIN TypeTable
    THEN Ok(TypeTable[name])
    ELSE Err("Type " \o name \o " not found")

\* Environment::lookup
EnvLookup(env, name) ==
    IF name \in DOMAIN env.definitions
    THEN Ok(env.definitions[name])
    ELSE Err("Definition of " \o name \o " not found")

\* An expansion that qualifies the name it is given, whatever it defines.
ExpandUnfollowed(env, name, seen) ==
    LET d == EnvLookup(env, name) IN
    IF ~d.ok THEN [status |-> "err", val |-> "", err |-> d.err]
    ELSE [status |-> "ok", val |-> env.name \o "@" \o name, err |-> ""]

\* Environment::expand from `name`, having followed the aliases `seen`.
\* An alias chain that returns to a name it has left is followed forever:
\* the recursion has no end ("diverged").
RECURSIVE ExpandFrom(_, _, _)
ExpandFrom(env, name, seen) ==
    LET d == EnvLookup(env, name) IN
    IF ~d.ok THEN [status |-> "err", val |-> "", err |-> d.err]
    ELSE IF d.val.kind = "Def"
         THEN [status |-> "ok", val |-> env.name \o "@" \o name, err |-> ""]
    ELSE IF d.val.kind = "Alias"
         THEN IF name \in seen
              THEN [status |-> "diverged", val |-> "", err |-> ""]
              ELSE ExpandFrom(env, d.val.target, seen \cup {name})
    ELSE [status |-> "err", val |-> "", err |-> name \o " may not be a macro"]

\* Environment::expand
expand(env, name) == ExpandFrom(env, name, {})

\* Option<u8>
NoneVal == [some |-> FALSE, v |-> 0]
SomeVal(a) == [some |-> TRUE, v |-> a]

\* What a call of compile_expression leaves: how it ended ("ok", "err",
\* "panic", "diverged"), the Ok value or the Err message, and the variable
\* table and the output after it.
Res(status, val, err, vt, out) ==
    [status |-> status, val |-> val, err |-> err, vt |-> vt, out |-> out]

NoReturnValue == "Expression has no return value"
TooManyArguments == "Too many arguments"
NotEnoughArguments == "Not enough arguments"
ArgIdTooLarge(index) == "Argument ID is too large (" \o ToString(index) \o ")"

\* writeln!(output, "\tdb {opcode}, {operands..}[, {literal}]"); `ended` is
\* FALSE for a line whose newline was never written.
DbLine(opcode, operands, literal) ==
    [kind |-> "db", opcode |-> opcode, operands |-> operands, literal |-> literal,
     ended |-> TRUE]

\* `let x = v;` followed by Body(x): v is evaluated once, and Body reads
\* its value.
Let(v, Body(_)) == CHOOSE result \in {Body(x) : x \in {v}} : TRUE

\* The first loop over the formals of a callee (lines 371-381, 428-438,
\* 503-513): Type parameters are counted, a Return parameter gets its slot
\* allocated at once; a second Return, an unknown type and a full frame
\* are errors.
RECURSIVE ScanFormals(_, _, _, _, _)
ScanFormals(formals, i, count, ret, vt) ==
    IF i > Len(formals)
    THEN [ok |-> TRUE, err |-> "", count |-> count, ret |-> ret, vt |-> vt]
    ELSE IF formals[i].kind = "Type"
         THEN ScanFormals(formals, i + 1, count + 1, ret, vt)
    ELSE IF ret.some
         THEN [ok |-> FALSE, err |-> "A function may only have one return value", count |-> count, ret |-> ret, vt |-> vt]
    ELSE IF ~TypeLookup(formals[i].t).ok
         THEN [ok |-> FALSE, err |-> TypeLookup(formals[i].t).err, count |-> count,
               ret |-> ret, vt |-> vt]
    ELSE Let(alloc(vt, TypeLookup(formals[i].t).val), LAMBDA a :
         IF ~a.ok
         THEN [ok |-> FALSE, err |-> a.err, count |-> count, ret |-> ret, vt |-> vt]
         ELSE Let(SomeVal(a.val), LAMBDA return_id :
              ScanFormals(formals, i + 1, count, return_id, a.table)))

\* An arity check that names the two errors the other way round.
ArityCheckSwapped(nargs, def_arg_count) ==
    IF nargs > def_arg_count THEN Err(NotEnoughArguments)
    ELSE IF nargs < def_arg_count THEN Err(TooManyArguments)
    ELSE Ok(0)

\* The arity check of a Direct or Alias callee (lines 383-387, 440-444).
ArityCheck(nargs, def_arg_count) ==
    IF nargs > def_arg_count THEN Err(TooManyArguments)
    ELSE IF nargs < def_arg_count THEN Err(NotEnoughArguments)
    ELSE Ok(0)

\* The arity check of a Macro callee (lines 515-519).
MacroArityCheck(nargs, def_arg_count, varargs) ==
    IF nargs > def_arg_count /\ ~varargs THEN Err(TooManyArguments)
    ELSE IF nargs < def_arg_count THEN Err(NotEnoughArguments)
    ELSE Ok(0)

\* A placeholder check with `>=` in place of `>`.
ArgIdBelowLen(index, arg_ids) == ~(index >= Len(arg_ids))

\* The check of a placeholder of an alias against the lowered argument
\* slots (line 486).
ArgIdInRange(index, arg_ids) == ~(index > Len(arg_ids))

\* The last loop of an Alias call (lines 481-493) from entry i: the slot of
\* every alias_ids entry is appended to the line. arg_ids[index - 1] with
\* index = 0 panics (usize underflow, or an index out of bounds).
\* A last loop that writes no operand at all.
WriteAliasIdsBare(alias_ids, i, arg_ids, line) ==
    [status |-> "ok", err |-> "", line |-> [line EXCEPT !.ended = TRUE]]

RECURSIVE WriteAliasIds(_, _, _, _)
WriteAliasIds(alias_ids, i, arg_ids, line) ==
    IF i > Len(alias_ids)
    THEN [status |-> "ok", err |-> "", line |-> [line EXCEPT !.ended = TRUE]]
    ELSE IF alias_ids[i].kind = "ExpressionId"
         THEN Let([line EXCEPT !.operands = Append(@, alias_ids[i].index)], LAMBDA written :
              WriteAliasIds(alias_ids, i + 1, arg_ids, written))
    ELSE IF ~ArgIdInRange(alias_ids[i].index, arg_ids)
         THEN [status |-> "err", err |-> ArgIdTooLarge(alias_ids[i].index), line |-> line]
    ELSE IF alias_ids[i].index = 0
         THEN [status |-> "panic", err |-> "", line |-> line]
    ELSE Let([line EXCEPT !.operands = Append(@, arg_ids[alias_ids[i].index])], LAMBDA written :
         WriteAliasIds(alias_ids, i + 1, arg_ids, written))

RECURSIVE CompileExpression(_, _, _, _)
RECURSIVE LowerArgs(_, _, _, _, _, _, _, _, _)
RECURSIVE LowerTargetArgs(_, _, _, _, _, _)

\* The second loop over the formals (lines 392-407, 450-465, 524-539) from
\* formal i: the call argument of every Type formal is lowered, in order,
\* and its slot pushed; a Return formal pushes the Return slot.
LowerArgs(formals, i, index, args, ret, arg_ids, env, vt, out) ==
    IF i > Len(formals)
    THEN [status |-> "ok", err |-> "", arg_ids |-> arg_ids, vt |-> vt, out |-> out]
    ELSE IF formals[i].kind = "Type"
         THEN Let(CompileExpression(args[index + 1], env, vt, out), LAMBDA r :
              IF r.status # "ok"
              THEN [status |-> r.status, err |-> r.err, arg_ids |-> arg_ids,
                    vt |-> r.vt, out |-> r.out]
              ELSE IF ~r.val.some
              THEN [status |-> "err", err |-> NoReturnValue, arg_ids |-> arg_ids,
                    vt |-> r.vt, out |-> r.out]
              ELSE IF ~TypeLookup(formals[i].t).ok
              THEN [status |-> "err", err |-> TypeLookup(formals[i].t).err,
                    arg_ids |-> arg_ids, vt |-> r.vt, out |-> r.out]
              ELSE IF ~SlotExists(r.vt, r.val.v)
              THEN [status |-> "panic", err |-> IndexPanic(r.val.v), arg_ids |-> arg_ids,
                    vt |-> r.vt, out |-> r.out]
              ELSE Let(Append(arg_ids, r.val.v), LAMBDA pushed :
                   LowerArgs(formals, i + 1, index + 1, args, ret, pushed, env, r.vt, r.out)))
    ELSE Let(Append(arg_ids, ret.v), LAMBDA pushed :
         LowerArgs(formals, i + 1, index, args, ret, pushed, env, vt, out))

\* The loop over alias.target_args (lines 467-477) from entry i: a
\* placeholder is kept as it is, an expression is lowered.
LowerTargetArgs(target_args, i, alias_ids, env, vt, out) ==
    IF i > Len(target_args)
    THEN [status |-> "ok", err |-> "", alias_ids |-> alias_ids, vt |-> vt, out |-> out]
    ELSE IF target_args[i].kind = "ArgId"
         THEN Let(Append(alias_ids, [kind |-> "ArgId", index |-> target_args[i].index]),
                  LAMBDA pushed : LowerTargetArgs(target_args, i + 1, pushed, env, vt, out))
    ELSE Let(CompileExpression(target_args[i].rpn, env, vt, out), LAMBDA r :
         IF r.status # "ok"
         THEN [status |-> r.status, err |-> r.err, alias_ids |-> alias_ids,
               vt |-> r.vt, out |-> r.out]
         ELSE IF ~r.val.some
         THEN [status |-> "err", err |-> NoReturnValue, alias_ids |-> alias_ids,
               vt |-> r.vt, out |-> r.out]
         ELSE Let(Append(alias_ids, [kind |-> "ExpressionId", index |-> r.val.v]),
                  LAMBDA pushed :
                  LowerTargetArgs(target_args, i + 1, pushed, env, r.vt, r.out)))

\* Rpn, the expression tree of the old front end
RpnCall(name, args) == [kind |-> "Call", name |-> name, args |-> args]
RpnSet(name, i) == [kind |-> "Set", name |-> name, i |-> i]
RpnBinary(variant, l, r) == [kind |-> variant, l |-> l, r |-> r]

\* The opcode stem binary_operation is handed for each Rpn variant
\* (lines 582-599).
BinaryOpOf ==
    [Mul |-> "mul", Div |-> "div", Mod |-> "mod", Add |-> "add", Sub |-> "sub",
     ShiftLeft |-> "shl", ShiftRight |-> "shr", BinaryAnd |-> "band",
     BinaryXor |-> "bxor", BinaryOr |-> "bor", Equ |-> "equ", NotEqu |-> "nequ",
     LessThan |-> "lt", GreaterThan |-> "gt", LessThanEqu |-> "lte",
     GreaterThanEqu |-> "gte", LogicalAnd |-> "land", LogicalOr |-> "lor"]

\* Call of a Direct definition (lines 367-418).
CallDef(name, args, def, env, vt, out) ==
    Let(ScanFormals(def.args, 1, 0, NoneVal, vt), LAMBDA scan :
    IF ~scan.ok THEN Res("err", NoneVal, scan.err, scan.vt, out)
    ELSE IF ~ArityCheck(Len(args), scan.count).ok
    THEN Res("err", NoneVal, ArityCheck(Len(args), scan.count).err, scan.vt, out)
    ELSE Let(LowerArgs(def.args, 1, 0, args, scan.ret, <<>>, env, scan.vt, out), LAMBDA low :
    IF low.status # "ok" THEN Res(low.status, NoneVal, low.err, low.vt, low.out)
    ELSE Let(expand(env, name), LAMBDA e :
    IF e.status # "ok" THEN Res(e.status, NoneVal, e.err, low.vt, low.out)
    ELSE Res("ok", scan.ret, "", low.vt, Append(low.out, DbLine(e.val, low.arg_ids, ""))))))

\* Call of an Alias definition (lines 419-498).
CallAlias(name, args, alias, env, vt, out) ==
    Let(ScanFormals(alias.args, 1, 0, NoneVal, vt), LAMBDA scan :
    IF ~scan.ok THEN Res("err", NoneVal, scan.err, scan.vt, out)
    ELSE IF ~ArityCheck(Len(args), scan.count).ok
    THEN Res("err", NoneVal, ArityCheck(Len(args), scan.count).err, scan.vt, out)
    ELSE Let(LowerArgs(alias.args, 1, 0, args, scan.ret, <<>>, env, scan.vt, out), LAMBDA low :
    IF low.status # "ok" THEN Res(low.status, NoneVal, low.err, low.vt, low.out)
    ELSE Let(LowerTargetArgs(alias.target_args, 1, <<>>, env, low.vt, low.out), LAMBDA tgt :
    IF tgt.status # "ok" THEN Res(tgt.status, NoneVal, tgt.err, tgt.vt, tgt.out)
    ELSE Let(expand(env, name), LAMBDA e :
    IF e.status # "ok" THEN Res(e.status, NoneVal, e.err, tgt.vt, tgt.out)
    ELSE Let(WriteAliasIds(tgt.alias_ids, 1, low.arg_ids,
                           [DbLine(e.val, <<>>, "") EXCEPT !.ended = FALSE]), LAMBDA w :
         Res(w.status, IF w.status = "ok" THEN scan.ret ELSE NoneVal, w.err,
             tgt.vt, Append(tgt.out, w.line)))))))

\* Call of a Macro definition (lines 499-551).
CallMacro(name, args, mac, env, vt, out) ==
    Let(ScanFormals(mac.args, 1, 0, NoneVal, vt), LAMBDA scan :
    IF ~scan.ok THEN Res("err", NoneVal, scan.err, scan.vt, out)
    ELSE IF ~MacroArityCheck(Len(args), scan.count, mac.varargs).ok
    THEN Res("err", NoneVal, MacroArityCheck(Len(args), scan.count, mac.varargs).err,
             scan.vt, out)
    ELSE Let(LowerArgs(mac.args, 1, 0, args, scan.ret, <<>>, env, scan.vt, out), LAMBDA low :
    IF low.status # "ok" THEN Res(low.status, NoneVal, low.err, low.vt, low.out)
    ELSE Res("ok", scan.ret, "", low.vt, Append(low.out,
               \* write!(output, "\t{target}") followed by " {i}," per argument
               [kind |-> "macro", opcode |-> mac.target, operands |-> low.arg_ids,
                literal |-> "", ended |-> TRUE]))))

\* The Negate and Not arms (lines 554-579): a constant is put in a fresh
\* slot, and the operand is combined with it by the opcode `stem`_type.
\* `first` tells whether the constant is the left operand.
UnaryArm(i, literal, stem, first, env, vt, out) ==
    Let(CompileExpression(i, env, vt, out), LAMBDA r :
    IF r.status # "ok" THEN r
    ELSE IF ~r.val.some THEN Res("err", NoneVal, NoReturnValue, r.vt, r.out)
    ELSE IF ~SlotExists(r.vt, r.val.v)
         THEN Res("panic", NoneVal, IndexPanic(r.val.v), r.vt, r.out)
    ELSE Let(type_of(r.vt, r.val.v), LAMBDA operand_type :
         Let(alloc(r.vt, operand_type), LAMBDA c :
    IF ~c.ok THEN Res("err", NoneVal, c.err, r.vt, r.out)
    ELSE Let(alloc(c.table, operand_type), LAMBDA result :
    IF ~result.ok THEN Res("err", NoneVal, result.err, c.table, r.out)
    ELSE Let(expand(env, "put_" \o TypeDisplay(operand_type)), LAMBDA put :
    IF put.status # "ok" THEN Res(put.status, NoneVal, put.err, result.table, r.out)
    ELSE Let(Append(r.out, DbLine(put.val, <<c.val>>, literal)), LAMBDA out1 :
         Let(expand(env, stem \o "_" \o TypeDisplay(operand_type)), LAMBDA op :
    IF op.status # "ok" THEN Res(op.status, NoneVal, op.err, result.table, out1)
    ELSE Res("ok", SomeVal(result.val), "", result.table,
             Append(out1, DbLine(op.val,
                                 IF first THEN <<result.val, c.val, r.val.v>>
                                          ELSE <<result.val, r.val.v, c.val>>, ""))))))))))

\* A lowering that takes the right operand before the left one.
BinaryRightFirst(l, op, r, env, vt, out) ==
    Let(CompileExpression(r, env, vt, out), LAMBDA rr :
    IF rr.status # "ok" THEN rr
    ELSE IF ~rr.val.some THEN Res("err", NoneVal, NoReturnValue, rr.vt, rr.out)
    ELSE Let(CompileExpression(l, env, rr.vt, rr.out), LAMBDA lr :
    IF lr.status # "ok" THEN lr
    ELSE IF ~lr.val.some THEN Res("err", NoneVal, NoReturnValue, lr.vt, lr.out)
    ELSE IF ~SlotExists(lr.vt, lr.val.v) \/ ~SlotExists(lr.vt, rr.val.v)
         THEN Res("panic", NoneVal, IndexPanic(lr.val.v), lr.vt, lr.out)
    ELSE Let(TypeFrom(type_of(lr.vt, lr.val.v), type_of(lr.vt, rr.val.v)), LAMBDA result_type :
         Let(alloc(lr.vt, result_type), LAMBDA result :
    IF ~result.ok THEN Res("err", NoneVal, result.err, lr.vt, lr.out)
    ELSE Let(expand(env, op \o "_" \o TypeDisplay(result_type)), LAMBDA e :
    IF e.status # "ok" THEN Res(e.status, NoneVal, e.err, result.table, lr.out)
    ELSE Res("ok", SomeVal(result.val), "", result.table,
             Append(lr.out, DbLine(e.val, <<result.val, lr.val.v, rr.val.v>>, ""))))))))

\* binary_operation (lines 328-349)
binary_operation(l, op, r, env, vt, out) ==
    Let(CompileExpression(l, env, vt, out), LAMBDA lr :
    IF lr.status # "ok" THEN lr
    ELSE IF ~lr.val.some THEN Res("err", NoneVal, NoReturnValue, lr.vt, lr.out)
    ELSE Let(CompileExpression(r, env, lr.vt, lr.out), LAMBDA rr :
    IF rr.status # "ok" THEN rr
    ELSE IF ~rr.val.some THEN Res("err", NoneVal, NoReturnValue, rr.vt, rr.out)
    ELSE IF ~SlotExists(rr.vt, lr.val.v)
         THEN Res("panic", NoneVal, IndexPanic(lr.val.v), rr.vt, rr.out)
    ELSE IF ~SlotExists(rr.vt, rr.val.v)
         THEN Res("panic", NoneVal, IndexPanic(rr.val.v), rr.vt, rr.out)
    ELSE Let(TypeFrom(type_of(rr.vt, lr.val.v), type_of(rr.vt, rr.val.v)), LAMBDA result_type :
         Let(alloc(rr.vt, result_type), LAMBDA result :
    IF ~result.ok THEN Res("err", NoneVal, result.err, rr.vt, rr.out)
    ELSE Let(expand(env, op \o "_" \o TypeDisplay(result_type)), LAMBDA e :
    IF e.status # "ok" THEN Res(e.status, NoneVal, e.err, result.table, rr.out)
    ELSE Res("ok", SomeVal(result.val), "", result.table,
             Append(rr.out, DbLine(e.val, <<result.val, lr.val.v, rr.val.v>>, ""))))))))

\* The Set arm (lines 600-610).
SetArm(name, i, env, vt, out) ==
    Let(lookup(vt, name), LAMBDA dest :
    IF ~dest.ok THEN Res("err", NoneVal, dest.err, vt, out)
    ELSE IF ~SlotExists(vt, dest.val) THEN Res("panic", NoneVal, IndexPanic(dest.val), vt, out)
    ELSE Let(type_of(vt, dest.val), LAMBDA dest_type :
         Let(CompileExpression(i, env, vt, out), LAMBDA source :
    IF source.status # "ok" THEN source
    ELSE IF ~source.val.some THEN Res("err", NoneVal, NoReturnValue, source.vt, source.out)
    ELSE Let(expand(env, "mov_" \o TypeDisplay(dest_type)), LAMBDA e :
    IF e.status # "ok" THEN Res(e.status, NoneVal, e.err, source.vt, source.out)
    ELSE Res("ok", SomeVal(dest.val), "", source.vt,
             Append(source.out, DbLine(e.val, <<dest.val, source.val.v>>, "")))))))

\* The Signed arm (lines 353-363).
SignedArm(value, env, vt, out) ==
    Let(Type(FALSE, 1), LAMBDA result_type :
    Let(alloc(vt, result_type), LAMBDA result :
    IF ~result.ok THEN Res("err", NoneVal, result.err, vt, out)
    ELSE Let(expand(env, "put_" \o TypeDisplay(result_type)), LAMBDA e :
    IF e.status # "ok" THEN Res(e.status, NoneVal, e.err, result.table, out)
    ELSE Res("ok", SomeVal(result.val), "", result.table,
             Append(out, DbLine(e.val, <<result.val>>, ToString(value)))))))

\* compile_expression (lines 321-612). String, Deref and Address are
\* todo!(), a panic.
CompileExpression(rpn, env, vt, out) ==
    IF rpn.kind = "Variable"
    THEN Let(lookup(vt, rpn.name), LAMBDA a :
         IF a.ok THEN Res("ok", SomeVal(a.val), "", vt, out)
                 ELSE Res("err", NoneVal, a.err, vt, out))
    ELSE IF rpn.kind = "Signed" THEN SignedArm(rpn.value, env, vt, out)
    ELSE IF rpn.kind \in {"String", "Deref", "Address"} THEN Res("panic", NoneVal, "", vt, out)
    ELSE IF rpn.kind = "Call"
    THEN Let(EnvLookup(env, rpn.name), LAMBDA d :
         IF ~d.ok THEN Res("err", NoneVal, d.err, vt, out)
         ELSE IF d.val.kind = "Def" THEN CallDef(rpn.name, rpn.args, d.val, env, vt, out)
         ELSE IF d.val.kind = "Alias" THEN CallAlias(rpn.name, rpn.args, d.val, env, vt, out)
         ELSE CallMacro(rpn.name, rpn.args, d.val, env, vt, out))
    ELSE IF rpn.kind = "Negate" THEN UnaryArm(rpn.i, "0", "sub", TRUE, env, vt, out)
    ELSE IF rpn.kind = "Not" THEN UnaryArm(rpn.i, "$FF", "xor", FALSE, env, vt, out)
    ELSE IF rpn.kind = "Set" THEN SetArm(rpn.name, rpn.i, env, vt, out)
    ELSE binary_operation(rpn.l, BinaryOpOf[rpn.kind], rpn.r, env, vt, out)

\* ========================================================================
\* compile_statement and compile_function (compiler.rs 614-672)
\* ========================================================================
\* types::Statement of a function body
FnStmtExpression(rpn) == [kind |-> "Expression", t |-> "", name |-> "", rpn |-> rpn]
FnStmtOther(kind) == [kind |-> kind, t |-> "", name |-> "", rpn |-> [kind |-> "None"]]

\* alloc(type_table.lookup(&t)?)? followed by *name_of(new_var) = Some(name)
\* (lines 626-627, 631-632)
DeclareVar(t, name, vt) ==
    IF ~TypeLookup(t).ok
    THEN [ok |-> FALSE, status |-> "err", err |-> TypeLookup(t).err, val |-> 0, vt |-> vt]
    ELSE Let(alloc(vt, TypeLookup(t).val), LAMBDA a :
         IF ~a.ok THEN [ok |-> FALSE, status |-> "err", err |-> a.err, val |-> 0, vt |-> vt]
         ELSE IF ~SlotExists(a.table, a.val)
         THEN [ok |-> FALSE, status |-> "panic", err |-> IndexPanic(a.val), val |-> 0,
               vt |-> a.table]
         ELSE [ok |-> TRUE, status |-> "ok", err |-> "", val |-> a.val,
               vt |-> BindName(a.table, a.val, name)])

\* compile_statement (lines 614-646)
compile_statement(statement, env, vt, out) ==
    IF statement.kind = "Expression"
    THEN CompileExpression(statement.rpn, env, vt, out)
    ELSE IF statement.kind = "Declaration"
    THEN Let(DeclareVar(statement.t, statement.name, vt), LAMBDA d :
         IF d.ok THEN Res("ok", SomeVal(d.val), "", d.vt, out)
                 ELSE Res(d.status, NoneVal, d.err, d.vt, out))
    ELSE IF statement.kind = "DeclareAssign"
    THEN Let(DeclareVar(statement.t, statement.name, vt), LAMBDA d :
         IF d.ok THEN CompileExpression(statement.rpn, env, d.vt, out)
                 ELSE Res(d.status, NoneVal, d.err, d.vt, out))
    ELSE IF statement.kind \in {"If", "While", "Do", "For", "Repeat", "Loop"}
    THEN Res("panic", NoneVal, "", vt, out)
    ELSE Res("err", NoneVal, statement.kind \o " not allowed in function", vt, out)

\* writeln!(output, "\nsection \"{name} evscript fn\", romx\n{name}::")
HeaderLine(name) ==
    [kind |-> "header", opcode |-> name, operands |-> <<>>, literal |-> "", ended |-> TRUE]
\* writeln!(output, "\tdb 0")
HaltLine ==
    [kind |-> "db", opcode |-> "0", operands |-> <<>>, literal |-> "", ended |-> TRUE]

\* ------------------------------------------------------------------------
\* SpecFn: compile_function on one function body, statement by statement.
\* ------------------------------------------------------------------------
\* The environment of the function: `T { use std; <TestDefinitions> }` as
\* compile_environment builds it.
TestDefinitions ==
    << <<"d0", DefOf(<<>>)>>,
       <<"d1", DefOf(<<ParamType("u8")>>)>>,
       <<"dr", DefOf(<<ParamReturn("u8"), ParamType("u8")>>)>>,
       <<"drr", DefOf(<<ParamReturn("u8"), ParamReturn("u8")>>)>>,
       <<"dw", DefOf(<<ParamReturn("u16")>>)>>,
       <<"a1", AliasOf(<<ParamType("u8")>>, "d1", <<[kind |-> "ArgId", index |-> 1]>>)>>,
       <<"a2", AliasOf(<<ParamType("u8")>>, "d1", <<[kind |-> "ArgId", index |-> 2]>>)>>,
       <<"ar", AliasOf(<<ParamReturn("u8"), ParamType("u8")>>, "dr",
                       <<[kind |-> "ArgId", index |-> 1], [kind |-> "ArgId", index |-> 2]>>)>>,
       <<"ar3", AliasOf(<<ParamReturn("u8"), ParamType("u8")>>, "dr",
                        <<[kind |-> "ArgId", index |-> 1], [kind |-> "ArgId", index |-> 3]>>)>>,
       <<"ax", AliasOf(<<>>, "d1", <<[kind |-> "Expression", rpn |-> RpnSigned(7)]>>)>>,
       <<"az", AliasOf(<<ParamType("u8")>>, "d1", <<[kind |-> "ArgId", index |-> 0]>>)>>,
       <<"am", AliasOf(<<>>, "m1", <<[kind |-> "ArgId", index |-> 1]>>)>>,
       <<"an", AliasOf(<<>>, "nope", <<[kind |-> "ArgId", index |-> 1]>>)>>,
       <<"ac", AliasOf(<<>>, "ac", <<[kind |-> "ArgId", index |-> 1]>>)>>,
       <<"m1", MacroOf(<<ParamType("u8")>>, "text", FALSE)>>,
       <<"mv", MacroOf(<<ParamType("u8")>>, "text", TRUE)>>,
       <<"mr", MacroOf(<<ParamReturn("u8"), ParamType("u8")>>, "text", FALSE)>> >>

RECURSIVE DefineAll(_, _, _)
DefineAll(p, defs, i) ==
    IF i > Len(defs) THEN p
    ELSE LET r == CEDefinition(p.env, p.index, defs[i][1], defs[i][2]) IN
         DefineAll([env |-> r.env, index |-> r.index], defs, i + 1)

\* The environment table compile_function finds: T, which uses std and
\* then makes the definitions of TestDefinitions.
FnTable ==
    LET used == CEUse(NewEnvironment("T"), 0, StdEnvironment) IN
    [n \in {"T"} |->
        DefineAll([env |-> used.env, index |-> used.index], TestDefinitions, 1).env]


\* The expressions of a body.  The calls take as callee a definition of T,
\* one of std, or a name T does not define, and up to MaxArgs arguments; the
\* other expressions cover every arm of compile_expression.
FnExprs ==
    {RpnCall(n, a) :
        n \in {TestDefinitions[i][1] : i \in DOMAIN TestDefinitions} \cup {"yield", "missing"},
        a \in UNION {[1..k -> {RpnSigned(1), RpnVariable("x")}] : k \in 0..MaxArgs}}
    \cup
    {RpnSigned(1), RpnVariable("x"), RpnSet("x", RpnSigned(2)),
     [kind |-> "Negate", i |-> RpnVariable("x")], [kind |-> "Not", i |-> RpnVariable("x")],
     RpnBinary("Add", RpnVariable("x"), RpnSigned(1)),
     RpnBinary("Add", RpnSigned(3), RpnSigned(4)),
     RpnBinary("Sub", RpnBinary("Add", RpnSigned(1), RpnSigned(2)), RpnVariable("x")),
     RpnBinary("BinaryXor", RpnVariable("x"), RpnVariable("x")),
     RpnCall("d1", <<RpnCall("d0", <<>>)>>),
     RpnCall("d1", <<RpnCall("dr", <<RpnSigned(1)>>)>>),
     RpnCall("ar", <<RpnCall("a2", <<RpnSigned(1)>>)>>),
     RpnCall("add_i8", <<>>), RpnCall("add_u8", <<>>),
     [kind |-> "String"], [kind |-> "Deref"], [kind |-> "Address"]}

NoFnStep ==
    [stmt |-> FnStmtOther("None"), status |-> "ok", err |-> "", val |-> NoneVal,
     before |-> NewTable, lines |-> 0]

\* The state n statements `1;` after state p of a function body.
RECURSIVE FnRepeat(_, _)
FnRepeat(p, n) ==
    IF n = 0 THEN p
    ELSE IF n = 1
    THEN Let(compile_statement(FnStmtExpression(RpnSigned(1)), p.env, p.vt, p.out), LAMBDA r :
             [env |-> p.env, vt |-> r.vt, out |-> r.out])
    ELSE CHOOSE r \in {FnRepeat(half, n - (n \div 2)) : half \in {FnRepeat(p, n \div 2)}} : TRUE

InitFnIdle ==
    /\ fn_env = NewEnvironment("")
    /\ fn_out = <<>>
    /\ fn_pc = "idle"
    /\ fn_last = NoFnStep
    /\ fn_count = 0


\* The loop of compile_function (lines 664-666) has a statement left.
FnRunning == fn_pc = "running" /\ fn_count < MaxFnStmts

\* One iteration of the loop of compile_function (lines 664-666).
FnStep(statement) ==
    /\ \E r \in {compile_statement(statement, fn_env, variables, fn_out)} :
        /\ variables' = r.vt
        /\ fn_out' = r.out
        /\ fn_pc' = IF r.status = "ok" THEN "running"
                    ELSE IF r.status = "err" THEN "failed"
                    ELSE IF r.status = "panic" THEN "panicked"
                    ELSE "diverged"
        /\ fn_last' = [stmt |-> statement, status |-> r.status, err |-> r.err,
                       val |-> r.val, before |-> variables, lines |-> Len(fn_out)]
    /\ fn_count' = fn_count + 1
    /\ UNCHANGED <<fn_env, vt_last, vt_requested, vt_used, vt_ops, ceVars, psVars, exVars, tyVars, inVars>>

FnExpression ==
    \E rpn \in FnExprs : FnRunning /\ FnStep(FnStmtExpression(rpn))
FnDeclaration ==
    \E t \in {"u8", "u16"}, n \in VarNames :
        FnRunning /\ FnStep([kind |-> "Declaration", t |-> t, name |-> n,
                             rpn |-> [kind |-> "None"]])
FnDeclareAssign ==
    \E t \in {"u8", "u16"}, n \in VarNames :
        FnRunning /\ FnStep([kind |-> "DeclareAssign", t |-> t, name |-> n,
                             rpn |-> RpnSet(n, RpnSigned(3))])
FnOther ==
    \E k \in {"If", "While", "Do", "For", "Repeat", "Loop", "Use"} : FnRunning /\ FnStep(FnStmtOther(k))

\* The end of a body that writes no halt line.
FnEndBare ==
    /\ fn_pc = "running"
    /\ fn_pc' = "done"
    /\ UNCHANGED <<variables, fn_env, fn_out, fn_last, fn_count, vt_last, vt_requested,
                   vt_used, vt_ops, ceVars, psVars, exVars, tyVars, inVars>>

\* The end of the body (lines 668-671).
FnEnd ==
    /\ fn_pc = "running"
    /\ fn_out' = Append(fn_out, HaltLine)
    /\ fn_pc' = "done"
    /\ UNCHANGED <<variables, fn_env, fn_last, fn_count, vt_last, vt_requested, vt_used,
                   vt_ops, ceVars, psVars, exVars, tyVars, inVars>>

NextFn == FnExpression \/ FnDeclaration \/ FnDeclareAssign \/ FnOther \/ FnEnd

\* ------------------------------------------------------------------------
\* compile_function as one call, and the Root::Function arm of compile.
\* ------------------------------------------------------------------------
\* The loop over func.contents (lines 664-666): `?` leaves at the first
\* statement that does not return Ok.
RECURSIVE CompileContents(_, _, _, _, _)
CompileContents(contents, i, env, vt, out) ==
    IF i > Len(contents) THEN Res("ok", NoneVal, "", vt, out)
    ELSE Let(compile_statement(contents[i], env, vt, out), LAMBDA r :
         IF r.status = "ok" THEN CompileContents(contents, i + 1, env, r.vt, r.out) ELSE r)

\* compile_function looking the environment up in a table that already
\* holds every environment of the source: a missing one counts as empty.
CompileFunctionUnordered(name, func, table, out) ==
    Let(CompileContents(func.contents, 1,
                        IF func.environment \in DOMAIN table THEN table[func.environment]
                        ELSE NewEnvironment(func.environment),
                        NewTable, Append(out, HeaderLine(name))), LAMBDA r :
        IF r.status = "ok" THEN Res("ok", NoneVal, "", r.vt, Append(r.out, HaltLine)) ELSE r)

compile_function(name, func, table, out) ==
    IF func.environment \notin DOMAIN table
    THEN Res("err", NoneVal, "Environment " \o func.environment \o " does not exist",
             NewTable, out)
    ELSE Let(CompileContents(func.contents, 1, table[func.environment], NewTable,
                             Append(out, HeaderLine(name))), LAMBDA r :
         IF r.status = "ok" THEN Res("ok", NoneVal, "", r.vt, Append(r.out, HaltLine)) ELSE r)

\* types::Root::Function(name, func), lines 689-691.
CEFunction(name, func) ==
    /\ ce_pc = "idle"
    /\ ce_count < MaxStmts
    /\ \E r \in {compile_function(name, func, environment_table, output)} :
        /\ output' = r.out
        /\ ce_pc' = IF r.status = "ok" THEN "idle"
                    ELSE IF r.status = "err" THEN "failed" ELSE "panicked"
        /\ ce_err' = r.err
    /\ ce_root' = RootOf("Function", name, func, environment_table, output)
    /\ ce_count' = ce_count + 1
    /\ UNCHANGED <<environment_table, compiled_env, bytecode_index, ce_stmts, ce_before,
                   ce_roots>>

NextCE ==
    \/ BeginEnvironment /\ UNCHANGED <<vtVars, psVars, fnVars, exVars, tyVars, inVars>>
    \/ EndEnvironment /\ UNCHANGED <<vtVars, psVars, fnVars, exVars, tyVars, inVars>>
    \* a Simple definition, an alias or a macro
    \/ \E stmt \in {StmtDefinition(n, DefOf(<<>>)) : n \in SimpleNames}
                    \cup {StmtDefinition("a", AliasOf(<<>>, "f", <<>>)),
                          StmtDefinition("m", MacroOf(<<>>, "text", FALSE))} :
          CEDefinitionStmt(stmt) /\ UNCHANGED <<vtVars, psVars, fnVars, exVars, tyVars, inVars>>
    \/ \E t \in {"A", "B"} : CEUseStmt(StmtUse(t)) /\ UNCHANGED <<vtVars, psVars, fnVars, exVars, tyVars, inVars>>
    \* a pool size: a literal around the limits, or a variable
    \/ \E e \in {RpnSigned(v) : v \in {-1, 0, 256, 257, 65534, 65535}} \cup {RpnVariable("x")} :
          CEPoolStmt(StmtPool(e)) /\ UNCHANGED <<vtVars, psVars, fnVars, exVars, tyVars, inVars>>
    \/ CEOtherStmt /\ UNCHANGED <<vtVars, psVars, fnVars, exVars, tyVars, inVars>>
    \* a function of A or B whose body is empty, or a call of g, or a call
    \* of g followed by a call of a name no environment defines
    \/ \E t \in {"A", "B"},
          contents \in {<<>>,
                        <<FnStmtExpression(RpnCall("g", <<>>))>>,
                        <<FnStmtExpression(RpnCall("g", <<>>)),
                          FnStmtExpression(RpnCall("missing", <<>>))>>} :
          CEFunction("main", FunctionOf(t, contents))
          /\ UNCHANGED <<vtVars, psVars, fnVars, exVars, tyVars, inVars>>

\* ------------------------------------------------------------------------
\* SpecEx: a parser building Exprs bottom-up with the constructors of
\* expr.rs. ex_tree records, for every Expr built, whether only Number
\* terminals went into it, the value of the arithmetic it stands for, and
\* how many operators were applied.
\* ------------------------------------------------------------------------
InitExIdle ==
    /\ ex_stack = <<>>
    /\ ex_tree = <<>>
    /\ ex_last = [op |-> "none", operands |-> <<>>, result |-> <<>>]
    /\ ex_count = 0

\* A terminal becomes an Expr (Expr::from).
ExTerminal(op) ==
    /\ ex_count < MaxExprCalls
    /\ Len(ex_stack) < MaxExprStack
    /\ ex_stack' = Append(ex_stack, ExprFrom(op))
    /\ ex_tree' = Append(ex_tree,
                         [constant |-> op.op = "Number",
                          value |-> IF op.op = "Number" THEN op.n ELSE 0,
                          operators |-> 0])
    /\ ex_last' = [op |-> "from", operands |-> <<>>, result |-> ExprFrom(op)]
    /\ ex_count' = ex_count + 1

\* The Expr on top becomes the operand of a unary operator.
ExUnary(operator) ==
    /\ ex_count < MaxExprCalls
    /\ Len(ex_stack) >= 1
    /\ LET n == Len(ex_stack)
           result == unary_op(ex_stack[n], operator)
       IN  /\ ex_stack' = [ex_stack EXCEPT ![n] = result]
           /\ ex_tree' = [ex_tree EXCEPT ![n] =
                             [constant |-> @.constant,
                              value |-> UnaryConstEval(operator, @.value),
                              operators |-> @.operators + 1]]
           /\ ex_last' = [op |-> operator, operands |-> <<ex_stack[n]>>, result |-> result]
    /\ ex_count' = ex_count + 1

\* The two Exprs on top become the operands of a binary operator.
ExBinary(operator) ==
    /\ ex_count < MaxExprCalls
    /\ Len(ex_stack) >= 2
    /\ LET n == Len(ex_stack)
           result == binary_op(ex_stack[n - 1], ex_stack[n], operator)
       IN  /\ ex_stack' = Append(SubSeq(ex_stack, 1, n - 2), result)
           /\ ex_tree' = Append(SubSeq(ex_tree, 1, n - 2),
                                [constant |-> ex_tree[n - 1].constant /\ ex_tree[n].constant,
                                 value |-> BinaryConstEval(operator, ex_tree[n - 1].value,
                                                           ex_tree[n].value),
                                 operators |-> ex_tree[n - 1].operators
                                               + ex_tree[n].operators + 1])
           /\ ex_last' = [op |-> operator, operands |-> <<ex_stack[n - 1], ex_stack[n]>>,
                          result |-> result]
    /\ ex_count' = ex_count + 1

\* The Expr on top is dereferenced.
ExDeref ==
    /\ ex_count < MaxExprCalls
    /\ Len(ex_stack) >= 1
    /\ LET n == Len(ex_stack)
           result == deref(ex_stack[n])
       IN  /\ ex_stack' = [ex_stack EXCEPT ![n] = result]
           /\ ex_tree' = [ex_tree EXCEPT ![n] =
                             [constant |-> FALSE, value |-> 0, operators |-> @.operators + 1]]
           /\ ex_last' = [op |-> "Deref", operands |-> <<ex_stack[n]>>, result |-> result]
    /\ ex_count' = ex_count + 1

\* The k Exprs on top become the arguments of a call of f, the lowest
\* being the first argument.
ExCall(k) ==
    /\ ex_count < MaxExprCalls
    /\ Len(ex_stack) >= k
    /\ Len(ex_stack) - k < MaxExprStack
    /\ LET n == Len(ex_stack)
           args == SubSeq(ex_stack, n - k + 1, n)
           result == func_call("f", args)
       IN  /\ ex_stack' = Append(SubSeq(ex_stack, 1, n - k), result)
           /\ ex_tree' = Append(SubSeq(ex_tree, 1, n - k),
                                [constant |-> FALSE, value |-> 0, operators |-> 1])
           /\ ex_last' = [op |-> "Call", operands |-> args, result |-> result]
    /\ ex_count' = ex_count + 1

NextEx ==
    \/ \E op \in {OpNumber(3), OpNumber(4), OpVariable("x")} :
          ExTerminal(op) /\ UNCHANGED <<vtVars, ceVars, psVars, fnVars, tyVars, inVars>>
    \/ ExUnary("Neg") /\ UNCHANGED <<vtVars, ceVars, psVars, fnVars, tyVars, inVars>>
    \/ ExDeref /\ UNCHANGED <<vtVars, ceVars, psVars, fnVars, tyVars, inVars>>
    \/ ExBinary("Add") /\ UNCHANGED <<vtVars, ceVars, psVars, fnVars, tyVars, inVars>>
    \* a call with one argument or more
    \/ \E k \in 1..MaxExprStack :
          ExCall(k) /\ UNCHANGED <<vtVars, ceVars, psVars, fnVars, tyVars, inVars>>

\* ------------------------------------------------------------------------
\* SpecTy: Type::from on two operand types.
\* ------------------------------------------------------------------------
InitTyIdle ==
    /\ ty_l = Type(FALSE, 0)
    /\ ty_r = Type(FALSE, 0)
    /\ ty_from = [lr |-> Type(FALSE, 0), rl |-> Type(FALSE, 0), ll |-> Type(FALSE, 0)]
    /\ ty_pc = "idle"


\* Type::from(l, r), Type::from(r, l) and Type::from(l, l).
NextTy ==
    /\ ty_pc = "idle"
    /\ ty_from' = [lr |-> TypeFrom(ty_l, ty_r), rl |-> TypeFrom(ty_r, ty_l),
                   ll |-> TypeFrom(ty_l, ty_l)]
    /\ ty_pc' = "done"
    /\ UNCHANGED <<ty_l, ty_r, vtVars, ceVars, psVars, fnVars, exVars, inVars>>

\* ------------------------------------------------------------------------
\* SpecIn: FileDb::parse_files and RootsIter (compiler/input.rs)
\* ------------------------------------------------------------------------
\* parsing::Root, as far as the file database looks at it: an Include of a
\* path, or any other top-level declaration.
IncludeOf(path) == [kind |-> "Include", path |-> path]
OtherRoot == [kind |-> "Env", path |-> ""]

\* Option<&Root>: the root at 0-based position idx of a file, or None.
SomeRoot(path, idx) == [some |-> TRUE, file |-> path, idx |-> idx]
NoneRoot == [some |-> FALSE, file |-> "", idx |-> 0]

InitInIdle ==
    /\ disk = [p \in {} |-> <<>>]
    /\ files = [p \in {} |-> <<>>]
    /\ file_stack = <<>>
    /\ in_ret = <<>>
    /\ in_pc = "idle"


\* The loop of parse_files (lines 96-114) from a file stack of (path, ofs)
\* on: the file on top is loaded (load_or_die, lines 33-85: a loaded file
\* is not read again), and the process exits when it cannot be read; at the first Include from ofs on, ofs is moved past it and the
\* included file is pushed, unless a file of that path is on the stack
\* (todo!(), a panic); a file without further Include is popped.
RECURSIVE ParseLoop(_, _)
ParseLoop(db, stack) ==
    IF stack = <<>> THEN [status |-> "ok", files |-> db]
    ELSE LET top == stack[Len(stack)]
             loaded == IF top.path \in DOMAIN db THEN db
                       ELSE (top.path :> disk[top.path]) @@ db
             roots == loaded[top.path]
             includes == {j \in (top.ofs + 1)..Len(roots) : roots[j].kind = "Include"}
             j == CHOOSE i \in includes : \A k \in includes : i <= k
         IN  IF top.path \notin DOMAIN db /\ top.path \notin DOMAIN disk
             THEN [status |-> "exit", files |-> db]
             ELSE IF includes = {}
             THEN ParseLoop(loaded, SubSeq(stack, 1, Len(stack) - 1))
             ELSE IF \E k \in DOMAIN stack : stack[k].path = roots[j].path
             THEN [status |-> "panic", files |-> loaded]
             ELSE ParseLoop(loaded, Append([stack EXCEPT ![Len(stack)].ofs = j],
                                           [path |-> roots[j].path, ofs |-> 0]))

\* FileDb::parse_files(root_path) (lines 88-117)
parse_files(root_path) ==
    /\ in_pc = "start"
    /\ \E r \in {ParseLoop(files, <<[path |-> root_path, ofs |-> 0]>>)} :
        /\ files' = r.files
        /\ in_pc' = IF r.status = "ok" THEN "parsed"
                    ELSE IF r.status = "panic" THEN "panicked" ELSE "exited"
    /\ UNCHANGED <<disk, file_stack, in_ret>>

\* FileDb::iter_roots(root_path) (lines 119-121), RootsIter::new (139-144)
iter_roots(root_path) ==
    /\ in_pc = "parsed"
    /\ file_stack' = <<[path |-> root_path, idx |-> 0]>>
    /\ in_pc' = "iterating"
    /\ UNCHANGED <<disk, files, in_ret>>

\* An iterator that steps over an Include without entering the file.
NextLoopShallow(db, stack) ==
    IF stack = <<>> THEN [status |-> "ok", item |-> NoneRoot, stack |-> <<>>]
    ELSE LET top == stack[Len(stack)]
             after == {j \in (top.idx + 1)..Len(db[top.path]) :
                           db[top.path][j].kind # "Include"}
             j == CHOOSE i \in after : \A k \in after : i <= k
         IN  IF after = {}
             THEN [status |-> "ok", item |-> NoneRoot, stack |-> <<>>]
             ELSE [status |-> "ok", item |-> SomeRoot(top.path, j - 1),
                   stack |-> [stack EXCEPT ![Len(stack)].idx = j]]

\* The loop of RootsIter::next (lines 151-164): None on an empty stack
\* (`last_mut()?`); the index of the file on top is advanced; an Include
\* pushes its file, any other root is returned, and a file that is at its
\* end is popped. A file that is not in the database is an unwrap of Err.
RECURSIVE NextLoop(_, _)
NextLoop(db, stack) ==
    IF stack = <<>> THEN [status |-> "ok", item |-> NoneRoot, stack |-> stack]
    ELSE LET top == stack[Len(stack)]
             roots == db[top.path]
             advanced == [stack EXCEPT ![Len(stack)].idx = top.idx + 1]
         IN  IF top.path \notin DOMAIN db
             THEN [status |-> "panic", item |-> NoneRoot, stack |-> stack]
             ELSE IF top.idx >= Len(roots)
             THEN NextLoop(db, SubSeq(advanced, 1, Len(advanced) - 1))
             ELSE IF roots[top.idx + 1].kind = "Include"
             THEN NextLoop(db, Append(advanced, [path |-> roots[top.idx + 1].path, idx |-> 0]))
             ELSE [status |-> "ok", item |-> SomeRoot(top.path, top.idx), stack |-> advanced]

\* One call of RootsIter::next (lines 150-165). (Calls go on until None
\* has been returned twice in a row.)
next ==
    /\ in_pc = "iterating"
    /\ ~(Len(in_ret) >= 2 /\ ~in_ret[Len(in_ret)].some /\ ~in_ret[Len(in_ret) - 1].some)
    /\ \E r \in {NextLoop(files, file_stack)} :
        /\ file_stack' = r.stack
        /\ in_ret' = IF r.status = "ok" THEN Append(in_ret, r.item) ELSE in_ret
        /\ in_pc' = IF r.status = "ok" THEN "iterating" ELSE "panicked"
    /\ UNCHANGED <<disk, files>>

NextIn ==
    \/ parse_files("a") /\ UNCHANGED <<vtVars, ceVars, psVars, fnVars, exVars, tyVars>>
    \/ iter_roots("a") /\ UNCHANGED <<vtVars, ceVars, psVars, fnVars, exVars, tyVars>>
    \/ next /\ UNCHANGED <<vtVars, ceVars, psVars, fnVars, exVars, tyVars>>

InitSpecVT ==
    /\ InitCEIdle /\ InitPSIdle /\ InitFnIdle /\ InitExIdle /\ InitTyIdle /\ InitInIdle
    /\ \E n \in {0, FrameSize - MaxAllocs} :
        /\ variables = AllocTemps(NewTable, n)
        /\ vt_requested = n
        /\ vt_used = n
    /\ vt_last = NoOp
    /\ vt_ops = 0

InitSpecCE ==
    /\ InitVTIdle /\ InitPSIdle /\ InitFnIdle /\ InitExIdle /\ InitTyIdle /\ InitInIdle
    /\ \E p \in CEInitStates :
        /\ environment_table = p.table
        /\ compiled_env = p.env
        /\ bytecode_index = p.index
        /\ output = p.out
        /\ ce_pc = p.pc
        /\ ce_stmts = p.stmts
        /\ ce_before = p.before
        /\ ce_roots = p.roots
        /\ ce_root = IF p.roots = 0
                     THEN RootOf("None", "", FunctionOf("", <<>>), StdTable, <<>>)
                     ELSE RootOf("Environment", p.env.name, FunctionOf("", <<>>),
                                 StdTable, <<>>)
    /\ ce_err = ""
    /\ ce_count = 0

InitSpecPS ==
    /\ InitVTIdle /\ InitCEIdle /\ InitFnIdle /\ InitExIdle /\ InitTyIdle /\ InitInIdle
    /\ \E p \in PSInitStates :
        /\ envs = p.envs
        /\ funcs = p.funcs
        /\ id = p.id
        /\ ps_pc = p.pc
        /\ ps_env = p.env
        /\ ps_stmts = p.stmts
        /\ ps_before = p.before
        /\ ps_roots = p.roots
    /\ pool_size = 0
    /\ ps_err = ""
    /\ ps_count = 0

\* compile_function of `main` up to its first statement (lines 655-662);
\* the body starts with no statement, or with as many statements `1;` as
\* leave one byte or no byte of the frame free.
InitSpecFn ==
    /\ InitCEIdle /\ InitPSIdle /\ InitExIdle /\ InitTyIdle /\ InitInIdle
    /\ vt_last = NoOp
    /\ vt_requested = 0
    /\ vt_used = 0
    /\ vt_ops = 0
    /\ fn_count = 0
    /\ \E environment \in {"T", "U"}, n \in {0, FrameSize - 1, FrameSize} :
          LET e == IF environment \in DOMAIN FnTable
                   THEN [pc |-> "running", err |-> "",
                         p |-> [env |-> FnTable[environment], vt |-> NewTable,
                                out |-> <<HeaderLine("main")>>]]
                   ELSE [pc |-> "failed",
                         err |-> "Environment " \o environment \o " does not exist",
                         p |-> [env |-> NewEnvironment(""), vt |-> NewTable, out |-> <<>>]]
              p == IF e.pc = "running" THEN FnRepeat(e.p, n) ELSE e.p
          IN  /\ fn_env = p.env
              /\ variables = p.vt
              /\ fn_out = p.out
              /\ fn_pc = e.pc
              /\ fn_last = [NoFnStep EXCEPT !.err = e.err,
                                            !.status = IF e.pc = "running" THEN "ok" ELSE "err"]

InitSpecEx == InitVTIdle /\ InitCEIdle /\ InitPSIdle /\ InitFnIdle /\ InitExIdle /\ InitTyIdle /\ InitInIdle

\* The operands are signed or not, and of a size from both ends and the
\* middle of u8.
InitSpecTy ==
    /\ InitVTIdle /\ InitCEIdle /\ InitPSIdle /\ InitFnIdle /\ InitExIdle /\ InitInIdle
    /\ \E l, r \in {Type(signed, size) : signed \in BOOLEAN,
                                          size \in {0, 1, 2, 4, U8Modulus - 1}} :
          ty_l = l /\ ty_r = r
    /\ ty_from = [lr |-> Type(FALSE, 0), rl |-> Type(FALSE, 0), ll |-> Type(FALSE, 0)]
    /\ ty_pc = "idle"

\* The root file `a` holds up to MaxRoots roots, declarations and includes
\* of `b` and `c`; `b` and `c` are short files that include each other,
\* themselves, the root file, or `d`, which cannot be read.
InitSpecIn ==
    /\ InitVTIdle /\ InitCEIdle /\ InitPSIdle /\ InitFnIdle /\ InitExIdle /\ InitTyIdle
    /\ \E a \in UNION {[1..n -> {OtherRoot, IncludeOf("b"), IncludeOf("c")}] : n \in 0..MaxRoots},
          b \in {<<>>, <<OtherRoot>>, <<IncludeOf("c")>>, <<OtherRoot, IncludeOf("c")>>,
                 <<IncludeOf("c"), OtherRoot>>, <<IncludeOf("c"), IncludeOf("c")>>,
                 <<IncludeOf("a")>>},
          c \in {<<>>, <<OtherRoot>>, <<OtherRoot, OtherRoot>>, <<IncludeOf("b")>>,
                 <<IncludeOf("c")>>, <<IncludeOf("d")>>} :
          disk = [p \in {"a", "b", "c"} |-> IF p = "a" THEN a ELSE IF p = "b" THEN b ELSE c]
    /\ files = [p \in {} |-> <<>>]
    /\ file_stack = <<>>
    /\ in_ret = <<>>
    /\ in_pc = "start"

SpecVT == InitSpecVT /\ [][NextVT]_vars
SpecCE == InitSpecCE /\ [][NextCE]_vars
SpecPS == InitSpecPS /\ [][NextPS]_vars
SpecFn == InitSpecFn /\ [][NextFn]_vars
SpecEx == InitSpecEx /\ [][NextEx]_vars
SpecTy == InitSpecTy /\ [][NextTy]_vars
SpecIn == InitSpecIn /\ [][NextIn]_vars

\* ========================================================================
\* Properties of the variable table (SpecVT)
\* ========================================================================
\* C3: on a table that started fresh, as long as the sizes requested so far
\* sum to at most 256 bytes, every alloc succeeds, and its address a for a
\* type of size s satisfies 0 <= a and a + s <= 256.
C3_AllocWithinFrame ==
    (vt_last.op # "none" /\ vt_requested <= FrameSize) =>
        /\ vt_last.ok
        /\ 0 <= vt_last.addr
        /\ vt_last.addr + vt_last.size <= FrameSize

\* A two-byte alloc that fills the frame exactly.
C3_FrameFilled ==
    /\ vt_last.op = "alloc"
    /\ vt_last.ok
    /\ vt_last.size = 2
    /\ vt_requested = FrameSize
    /\ vt_last.addr = FrameSize - 2

\* C4: an alloc whose size, added to the sizes allocated so far, exceeds 256
\* fails with the out-of-variable-space error, and no alloc succeeds with a
\* range [address, address + size) that extends past byte 255.
C4_AllocFailsWhenFull ==
    vt_last.op # "none" =>
        /\ vt_requested > FrameSize => ~vt_last.ok
        /\ vt_last.ok => vt_last.addr + vt_last.size <= FrameSize

\* A successful alloc of a two-byte variable at address 255.
C4_Overrun ==
    /\ vt_last.op # "none"
    /\ vt_last.ok
    /\ vt_last.addr = FrameSize - 1
    /\ vt_last.size = 2

\* C5: right after a declaration allocated address a and bound it to name
\* n, lookup(n) returns a.
C5_LookupAfterBind ==
    (vt_last.op = "declare" /\ vt_last.ok) =>
        lookup(variables, vt_last.name) = Ok(vt_last.addr)

\* A second declaration of a name: lookup returns the first one's address.
C5_Shadowed ==
    /\ vt_last.op = "declare"
    /\ vt_last.ok
    /\ lookup(variables, vt_last.name).ok
    /\ lookup(variables, vt_last.name).val < vt_last.addr

\* ========================================================================
\* Properties of compile_environment (SpecCE)
\* ========================================================================
\* The last statement compile_environment processed.
LastStmt == ce_stmts[Len(ce_stmts)]
\* `def <name>;`
IsSimple(stmt) == stmt.kind = "Definition" /\ stmt.def.kind = "Def"
\* The opcode ids of the Direct definitions of an environment.
DirectIds(env) == {env.definitions[n].bytecode : n \in DirectNames(env.definitions)}

\* C1: in an environment of Simple definitions only, the i-th one receives
\* id i - 1 (0, 1, 2 for `def f; def g; def h;`); and in `use E; def x;`,
\* where E holds the Direct ids 0..n-1, x receives id n (3 after the three
\* definitions of A).
C1_ConsecutiveIds ==
    ce_pc = "building" =>
        /\ (\A i \in DOMAIN ce_stmts : IsSimple(ce_stmts[i])) =>
              \A i \in DOMAIN ce_stmts :
                  (\A j \in (i + 1)..Len(ce_stmts) : ce_stmts[j].name # ce_stmts[i].name) =>
                      compiled_env.definitions[ce_stmts[i].name].bytecode = i - 1
        /\ ( /\ Len(ce_stmts) = 2
             /\ ce_stmts[1].kind = "Use"
             /\ ce_stmts[1].name \in DOMAIN environment_table
             /\ IsSimple(ce_stmts[2]) ) =>
              LET used == environment_table[ce_stmts[1].name]
                  n == Cardinality(DirectNames(used.definitions))
              IN  DirectIds(used) = 0..(n - 1) =>
                      compiled_env.definitions[ce_stmts[2].name].bytecode = n

\* `B { use A; def extra; }` after `A { def f; def g; def h; }`: extra has
\* received id 2.
C1_ExtraAfterUse ==
    /\ ce_pc = "building"
    /\ ce_stmts = <<StmtUse("A"), StmtDefinition("extra", DefOf(<<>>))>>
    /\ DirectIds(environment_table["A"]) = {0, 1, 2}
    /\ compiled_env.definitions["extra"].bytecode = 2

\* C2: in an environment the builder has accepted so far, no two Direct
\* definitions have the same opcode id.
C2_DistinctIds ==
    ce_pc \in {"building", "idle"} =>
        \A a, b \in DirectNames(compiled_env.definitions) :
            a # b => compiled_env.definitions[a].bytecode # compiled_env.definitions[b].bytecode

\* An accepted environment in which h and extra have the same id.
C2_SharedId ==
    /\ ce_pc = "idle"
    /\ {"h", "extra"} \subseteq DirectNames(compiled_env.definitions)
    /\ compiled_env.definitions["h"].bytecode = compiled_env.definitions["extra"].bytecode

C7_AllIdsUsable ==
    ( /\ ce_pc \in {"building", "failed"}
      /\ ce_stmts # <<>>
      /\ \A i \in DOMAIN ce_stmts : IsSimple(ce_stmts[i]) ) =>
        IF Len(ce_stmts) <= U8Modulus
        THEN /\ ce_pc = "building"
             /\ compiled_env.definitions[LastStmt.name].bytecode = Len(ce_stmts) - 1
        ELSE ce_pc = "failed" /\ ce_err = BytecodeLimit(compiled_env.name)

\* The 256th Simple definition of an environment has failed.
C7_LastIdRefused ==
    /\ ce_pc = "failed"
    /\ Len(ce_stmts) = U8Modulus
    /\ \A i \in DOMAIN ce_stmts : IsSimple(ce_stmts[i])
    /\ ce_err = BytecodeLimit(compiled_env.name)

\* C8: a Pool statement is accepted exactly when its size folds to a
\* constant in 0..65534.
C8_PoolRange ==
    ( /\ ce_pc \in {"building", "failed"}
      /\ ce_stmts # <<>>
      /\ LastStmt.kind = "Pool" ) =>
        (ce_pc = "building" <=>
            (eval_const(LastStmt.expr).ok /\ eval_const(LastStmt.expr).val \in 0..MAX_SIZE))

\* `pool 65534;` has failed.
C8_LargePoolRefused ==
    /\ ce_pc = "failed"
    /\ ce_stmts # <<>>
    /\ LastStmt = StmtPool(RpnSigned(MAX_SIZE))
    /\ ce_err = "Pool size is limited to 256 bytes"

\* ========================================================================
\* Properties of calls (SpecFn)
\* ========================================================================
\* The last statement was an expression statement that calls a definition
\* of the function's environment.
LastIsCall ==
    /\ fn_last.stmt.kind = "Expression"
    /\ fn_last.stmt.rpn.kind = "Call"
    /\ fn_last.stmt.rpn.name \in DOMAIN fn_env.definitions
\* The callee of that call, and the call's arguments.
Callee == fn_env.definitions[fn_last.stmt.rpn.name]
CallArgs == fn_last.stmt.rpn.args
\* The formals of a definition that are not Return parameters.
TypeFormals(def) == {i \in DOMAIN def.args : def.args[i].kind = "Type"}
ReturnFormals(def) == {i \in DOMAIN def.args : def.args[i].kind = "Return"}
\* The arity errors as the claim states them.
ArityAsClaimed ==
    /\ Len(CallArgs) < Cardinality(TypeFormals(Callee)) =>
          fn_last.status = "err" /\ fn_last.err = NotEnoughArguments
    /\ (Len(CallArgs) > Cardinality(TypeFormals(Callee))
            /\ ~(Callee.kind = "Macro" /\ Callee.varargs)) =>
          fn_last.status = "err" /\ fn_last.err = TooManyArguments
    /\ (Len(CallArgs) > Cardinality(TypeFormals(Callee))
            /\ Callee.kind = "Macro" /\ Callee.varargs) =>
          fn_last.err \notin {TooManyArguments, NotEnoughArguments}
\* The slot of every Return formal of the callee can be allocated: there
\* is at most one, its type is known, and the table the call found has room.
ReturnSlotGranted ==
    /\ Cardinality(ReturnFormals(Callee)) <= 1
    /\ \A i \in ReturnFormals(Callee) :
          /\ Callee.args[i].t \in DOMAIN TypeTable
          /\ alloc(fn_last.before, TypeTable[Callee.args[i].t]).ok

\* C9 as stated: a call with fewer arguments than the callee's non-Return
\* formals fails with "Not enough arguments", one with more fails with
\* "Too many arguments", except that a varargs Macro accepts more.
C9_ArityErrors == LastIsCall => ArityAsClaimed

\* C9 as the code has it: the same, for a callee whose Return slot can be
\* allocated (the formals are scanned, and the Return slot allocated,
\* before the arguments are counted).
C9_ArityErrorsAfterScan == (LastIsCall /\ ReturnSlotGranted) => ArityAsClaimed

\* `dr()` failed with "Not enough arguments" after the Return slot of dr
\* was allocated, and `mr(1, 1)` failed with "Too many arguments".
C9_ArityRefused ==
    /\ LastIsCall
    /\ fn_last.stmt.rpn.name \in {"dr", "mr"}
    /\ ReturnSlotGranted
    /\ \/ Len(CallArgs) = 0 /\ fn_last.err = NotEnoughArguments
       \/ Len(CallArgs) = 2 /\ fn_last.err = TooManyArguments
    /\ fn_last.status = "err"

\* The placeholders of the callee's substitution list that are greater than
\* n, and the first of a set of positions.
PlaceholdersAbove(n) ==
    {k \in DOMAIN Callee.target_args :
        Callee.target_args[k].kind = "ArgId" /\ Callee.target_args[k].index > n}
ZeroPlaceholders ==
    {k \in DOMAIN Callee.target_args :
        Callee.target_args[k].kind = "ArgId" /\ Callee.target_args[k].index = 0}
First(S) == CHOOSE k \in S : \A j \in S : k <= j
\* The call of an alias got as far as writing its line: its formals were
\* scanned, its arguments counted and lowered, the expression arguments of
\* its substitution list lowered, and its name expanded.
AliasLineStarted ==
    LET scan == ScanFormals(Callee.args, 1, 0, NoneVal, fn_last.before)
        low == LowerArgs(Callee.args, 1, 0, CallArgs, scan.ret, <<>>, fn_env, scan.vt, <<>>)
        tgt == LowerTargetArgs(Callee.target_args, 1, <<>>, fn_env, low.vt, low.out)
    IN  /\ scan.ok
        /\ Len(CallArgs) = scan.count
        /\ low.status = "ok"
        /\ tgt.status = "ok"
        /\ expand(fn_env, fn_last.stmt.rpn.name).status = "ok"

SignedOf(stem) == stem \o "_i8"
UnsignedOf(stem) == stem \o "_u8"
StdStems == {StdTyped[i] : i \in DOMAIN StdTyped}
\* The opcode id of the Direct definition a qualified name `<env>@<name>`
\* stands for.
IdOfQualified(env, qualified) ==
    env.definitions[CHOOSE n \in DirectNames(env.definitions) :
                        env.name \o "@" \o n = qualified].bytecode
\* The environments opcodes are resolved in: std, and the environment of
\* the function being compiled when it has used std.
ResolvingEnvs ==
    {StdEnvironment} \cup
    (IF DOMAIN StdEnvironment.definitions \subseteq DOMAIN fn_env.definitions
     THEN {fn_env} ELSE {})

\* C11: in the standard environment (and in an environment that used it)
\* every signed mnemonic expands to the same qualified Direct definition,
\* hence the same opcode id, as its unsigned counterpart; add_u8 and add_i8
\* both resolve to id 4 in std; and a call of add_i8 emits the opcode of
\* add_u8.
C11_SignedResolvesAsUnsigned ==
    /\ fn_count = 0 => \A env \in ResolvingEnvs : \A stem \in StdStems :
          LET s == expand(env, SignedOf(stem))
              u == expand(env, UnsignedOf(stem))
          IN  /\ s.status = "ok"
              /\ u.status = "ok"
              /\ s.val = u.val
              /\ s.val = env.name \o "@" \o UnsignedOf(stem)
              /\ IdOfQualified(env, s.val) = IdOfQualified(env, u.val)
    /\ expand(StdEnvironment, "add_i8").val = expand(StdEnvironment, "add_u8").val
    /\ IdOfQualified(StdEnvironment, expand(StdEnvironment, "add_i8").val) = 4
    /\ IdOfQualified(StdEnvironment, expand(StdEnvironment, "add_u8").val) = 4
    /\ (fn_pc = "running" /\ fn_last.stmt.kind = "Expression"
            /\ fn_last.stmt.rpn = RpnCall("add_i8", <<>>) /\ fn_last.status = "ok") =>
          fn_out[Len(fn_out)].opcode = fn_env.name \o "@add_u8"

\* The statement `add_i8();` was lowered to a line whose opcode is add_u8's.
C11_SignedCallLowered ==
    /\ fn_pc = "running"
    /\ fn_last.stmt.kind = "Expression"
    /\ fn_last.stmt.rpn = RpnCall("add_i8", <<>>)
    /\ fn_last.status = "ok"
    /\ fn_out[Len(fn_out)].opcode = fn_env.name \o "@add_u8"
    /\ IdOfQualified(fn_env, fn_env.name \o "@add_u8") = 4

\* ========================================================================
\* Properties of lowering (SpecFn)
\* ========================================================================
\* The lines the last statement has written.
StmtLines == SubSeq(fn_out, fn_last.lines + 1, Len(fn_out))
\* The last statement was an expression statement whose expression is a
\* binary operation, and it was lowered.
LastIsBinary ==
    /\ fn_pc = "running"
    /\ fn_last.stmt.kind = "Expression"
    /\ fn_last.stmt.rpn.kind \in DOMAIN BinaryOpOf
    /\ fn_last.status = "ok"

\* C12: a binary operation that is lowered writes the lines of its left
\* operand, then those of its right operand lowered on the table the left
\* one left, then one line `<op>_<type> result, left, right`, where the
\* result slot was free before that line and differs from both operand
\* slots; `3 + 4` writes two put_u8 lines and one add_u8 line on three
\* distinct slots that were free before the statement.
C12_BinaryLowering ==
    LastIsBinary =>
        \E left \in {CompileExpression(fn_last.stmt.rpn.l, fn_env, fn_last.before, <<>>)} :
        \E right \in {CompileExpression(fn_last.stmt.rpn.r, fn_env, left.vt, <<>>)} :
        LET rpn == fn_last.stmt.rpn
            result == fn_last.val.v
            suffix == TypeDisplay(TypeFrom(type_of(variables, left.val.v),
                                           type_of(variables, right.val.v)))
        IN  /\ left.status = "ok" /\ left.val.some
            /\ right.status = "ok" /\ right.val.some
            /\ fn_last.val.some
            /\ StmtLines = left.out \o right.out \o
                  <<DbLine(fn_env.name \o "@" \o BinaryOpOf[rpn.kind] \o "_" \o suffix,
                           <<result, left.val.v, right.val.v>>, "")>>
            /\ result \notin {left.val.v, right.val.v}
            /\ ~right.vt[result].some
            /\ variables[result].some
            /\ rpn = RpnBinary("Add", RpnSigned(3), RpnSigned(4)) =>
                  \E a \in {left.val.v}, b \in {right.val.v}, c \in {result} :
                      /\ {a, b, c} \subseteq 0..(FrameSize - 1)
                      /\ Cardinality({a, b, c}) = 3
                      /\ \A i \in {a, b, c} : ~fn_last.before[i].some
                      /\ StmtLines = <<DbLine(fn_env.name \o "@put_u8", <<a>>, "3"),
                                       DbLine(fn_env.name \o "@put_u8", <<b>>, "4"),
                                       DbLine(fn_env.name \o "@add_u8", <<c, a, b>>, "")>>

\* `3 + 4;` as the first statement of a body: put_u8 into slots 0 and 1,
\* add_u8 into slot 2.
C12_ThreePlusFour ==
    /\ LastIsBinary
    /\ fn_last.stmt.rpn = RpnBinary("Add", RpnSigned(3), RpnSigned(4))
    /\ fn_last.lines = 1
    /\ Len(StmtLines) = 3
    /\ StmtLines[3] = DbLine("T@add_u8", <<2, 0, 1>>, "")

\* ========================================================================
\* Properties of the expression constructors (SpecEx)
\* ========================================================================
\* C13: binary_op of two Exprs that are each one Number terminal returns
\* an Expr that is one Number terminal holding the operator's value of the
\* two (3 + 4 gives Number(7)); and every Expr built from Number terminals
\* only, whatever its nesting, is one Number terminal holding the value of
\* the arithmetic, with no operator node.
C13_ConstantsFold ==
    /\ (ex_last.op = "Add" /\ \A i \in 1..2 : IsNumber(ex_last.operands[i])) =>
          /\ ex_last.result =
                <<OpNumber(ex_last.operands[1][1].n + ex_last.operands[2][1].n)>>
          /\ (ex_last.operands = <<ExprFrom(OpNumber(3)), ExprFrom(OpNumber(4))>>
                => ex_last.result = <<OpNumber(7)>>)
    /\ \A i \in DOMAIN ex_stack :
          ex_tree[i].constant =>
              /\ ex_stack[i] = <<OpNumber(ex_tree[i].value)>>
              /\ \A k \in DOMAIN ex_stack[i] : ex_stack[i][k].op = "Number"

\* (3 + 4) + -4, built with three operators, is the one terminal
\* Number(3); its first operand was the folded Number(7).
C13_NestedFolded ==
    /\ ex_last.op = "Add"
    /\ ex_last.operands = <<ExprFrom(OpNumber(7)), ExprFrom(OpNumber(-4))>>
    /\ ex_last.result = <<OpNumber(3)>>
    /\ ex_tree[Len(ex_tree)].constant
    /\ ex_tree[Len(ex_tree)].operators = 3

\* ========================================================================
\* Properties of collect_envs (SpecPS)
\* ========================================================================
\* The last statement process_stmt was given is a `use` of an environment
\* that exists.
PSLastIsUse ==
    /\ ps_pc \in {"building", "failed"}
    /\ ps_stmts # <<>>
    /\ ps_stmts[Len(ps_stmts)].kind = "Use"
    /\ ps_stmts[Len(ps_stmts)].name \in DOMAIN envs
\* The functions of the environment that `use` names.
PSUsedFuncs == envs[ps_stmts[Len(ps_stmts)].name].funcs

\* C14: a `use` that meets, in the environment under construction, a name
\* the used environment defines too does not fail (the functions of the
\* environment under construction are left as they were only when the
\* statement failed, so the names in common are then those it met).
C14_UseMergesExistingName ==
    (PSLastIsUse /\ DOMAIN funcs \cap DOMAIN PSUsedFuncs # {}) =>
        /\ ps_pc = "building"
        /\ \A n \in DOMAIN PSUsedFuncs : funcs[n] = PSUsedFuncs[n]

\* `A { def a = f; }` then `B { def a = f; use A; }`: the `use` has failed
\* on the name a.
C14_UseRefused ==
    /\ PSLastIsUse
    /\ ps_pc = "failed"
    /\ ps_stmts[1].kind = "Def"
    /\ ps_stmts[1].name = "a"
    /\ "a" \in DOMAIN PSUsedFuncs
    /\ ps_err = "Redefinition of function a"

\* ========================================================================
\* Properties of redefinitions (SpecCE)
\* ========================================================================
\* The name the last statement defines was defined earlier in the
\* environment under construction, by a definition or by a `use`.
DefinedEarlier ==
    \E i \in 1..(Len(ce_stmts) - 1) :
        \/ ce_stmts[i].kind = "Definition" /\ ce_stmts[i].name = LastStmt.name
        \/ /\ ce_stmts[i].kind = "Use"
           /\ ce_stmts[i].name \in DOMAIN environment_table
           /\ LastStmt.name \in DOMAIN environment_table[ce_stmts[i].name].definitions

\* C15: a declaration of an environment whose name is in the table fails
\* (so every declaration that ended well added a name to the table), and a
\* definition of a name the environment already has, from a definition or
\* from a `use`, fails.
C15_RedefinitionsFail ==
    /\ ce_pc = "idle" =>
          Cardinality(DOMAIN environment_table \ {"std"}) = ce_roots
    /\ ( /\ ce_pc \in {"building", "failed"}
         /\ ce_stmts # <<>>
         /\ LastStmt.kind = "Definition"
         /\ DefinedEarlier ) => ce_pc = "failed"

\* `B { use A; def f; }` after `A { def f; def g; def h; }`: the second
\* definition of f was accepted and has replaced the one of A.
C15_DefinedTwice ==
    /\ ce_pc = "building"
    /\ ce_stmts = <<StmtUse("A"), StmtDefinition("f", DefOf(<<>>))>>
    /\ "f" \in DOMAIN environment_table["A"].definitions
    /\ DefinedEarlier
    /\ compiled_env.definitions["f"].bytecode = 2

\* ========================================================================
\* Properties of the top-level declarations (SpecCE)
\* ========================================================================
\* The last top-level declaration was a function, and compile_function
\* has returned.
LastIsFunction == ce_root.kind = "Function" /\ ce_pc \in {"idle", "failed"}

\* The output items of the last top-level declaration.
RootLines == SubSeq(output, ce_root.lines + 1, Len(output))

\* The environment the table held under the function's environment name
\* when the function was reached.
RootEnv == ce_root.table[ce_root.func.environment]

\* C16: declarations are processed in source order.  A function whose
\* environment no earlier declaration has put in the table fails with
\* "Environment <name> does not exist" and writes nothing; a function whose
\* environment was declared earlier gets its header, never that error, and
\* its call of g succeeds exactly if that declaration defines g, as the
\* instruction `<environment>@g`.
C16_SourceOrder ==
    LastIsFunction =>
        LET environment == ce_root.func.environment
            declared == environment \in DOMAIN ce_root.table
            callsG == ce_root.func.contents = <<FnStmtExpression(RpnCall("g", <<>>))>>
        IN  /\ environment_table = ce_root.table
            /\ ~declared =>
                  /\ ce_pc = "failed"
                  /\ ce_err = "Environment " \o environment \o " does not exist"
                  /\ RootLines = <<>>
            /\ declared =>
                  /\ ce_err # "Environment " \o environment \o " does not exist"
                  /\ RootLines # <<>>
                  /\ RootLines[1] = HeaderLine(ce_root.name)
                  /\ callsG =>
                       IF "g" \in DirectNames(RootEnv.definitions)
                       THEN /\ ce_pc = "idle"
                            /\ RootLines = <<HeaderLine(ce_root.name),
                                             DbLine(environment \o "@g", <<>>, ""),
                                             HaltLine>>
                       ELSE ce_pc = "failed"

\* `A { def f; def g; def h; }`, then a function of B: B is not declared yet.
C16_ForwardReference ==
    /\ LastIsFunction
    /\ ce_root.func.environment = "B"
    /\ DOMAIN ce_root.table = {"std", "A"}
    /\ ce_pc = "failed"
    /\ ce_err = "Environment B does not exist"

\* C17: when a top-level declaration fails, the environment table is the
\* one the declaration started from and the output holds no item of the
\* declaration.
C17_NothingPartial ==
    ce_pc = "failed" =>
        /\ environment_table = ce_root.table
        /\ RootLines = <<>>

\* A function of a declared environment with the body `g(); missing();`:
\* the second call has failed, the header and the line of the first call
\* are in the output.
C17_PartialFunction ==
    /\ LastIsFunction
    /\ ce_pc = "failed"
    /\ Len(ce_root.func.contents) = 2
    /\ environment_table = ce_root.table
    /\ Len(RootLines) = 2
    /\ RootLines[1] = HeaderLine(ce_root.name)
    /\ RootLines[2] = DbLine(ce_root.func.environment \o "@g", <<>>, "")

\* ========================================================================
\* Properties of the output of a function (SpecFn)
\* ========================================================================
\* C18: compile_function only ever appends to the output; the lines of a
\* statement that is lowered are appended after the lines of all earlier
\* statements and are the lines that statement lowers to on the variable
\* table the earlier ones left; and when the function has succeeded the
\* first line is the header naming the function, the last line is `db 0`,
\* and no other line is a header or `db 0`.
C18_FunctionOutput ==
    [][ /\ Len(fn_out') >= Len(fn_out)
        /\ SubSeq(fn_out', 1, Len(fn_out)) = fn_out
        /\ (fn_pc = "running" /\ fn_pc' = "running") =>
              fn_out' = fn_out \o compile_statement(fn_last'.stmt, fn_env, variables, <<>>).out
        /\ fn_pc' = "done" =>
              LET n == Len(fn_out')
                  isHalt(line) == line.kind = "db" /\ line.opcode = "0" /\ line.operands = <<>>
                                  /\ line.literal = "" /\ line.ended
              IN  /\ n >= 2
                  /\ fn_out'[1].kind = "header"
                  /\ fn_out'[1].opcode = "main"
                  /\ isHalt(fn_out'[n])
                  /\ \A i \in 2..n : fn_out'[i].kind # "header"
                  /\ \A i \in 1..(n - 1) : ~isHalt(fn_out'[i])
      ]_vars

\* A function of MaxFnStmts statements has succeeded; its last statement
\* wrote lines, and so did the ones before it.
C18_FunctionDone ==
    /\ fn_pc = "done"
    /\ fn_count = MaxFnStmts
    /\ fn_last.lines > 1
    /\ Len(fn_out) > fn_last.lines + 1
    /\ fn_out[Len(fn_out)] = HaltLine

\* ========================================================================
\* Properties of the `def .. equ` lines (SpecCE)
\* ========================================================================
\* The declaration of an environment has ended well and is the last
\* top-level declaration.
EnvironmentDone == ce_pc = "idle" /\ ce_root.kind = "Environment"

\* The `def .. equ` lines the last declaration has written: those of its
\* definitions, and those of its `use` statements.
DefLinesAt(i) ==
    IF RootLines[i].kind = "def" THEN {RootLines[i]}
    ELSE IF RootLines[i].kind = "use" THEN RootLines[i].lines
    ELSE {}
\* The items of the output that hold a `def .. equ` line of the name n.
LinesNaming(n) == {i \in DOMAIN RootLines : \E line \in DefLinesAt(i) : line.name = n}

\* C19: the output of an environment holds, for each of its Direct
\* definitions, exactly one line `def <environment>@<name> equ <id>` with
\* the id the definition has in the environment, and no such line for any
\* other name.
C19_OneLinePerDirect ==
    EnvironmentDone =>
        LET env == environment_table[ce_root.name]
            written == UNION {{line.name : line \in DefLinesAt(i)} : i \in DOMAIN RootLines}
        IN  /\ written = DirectNames(env.definitions)
            /\ \A n \in written :
                  /\ Cardinality(LinesNaming(n)) = 1
                  /\ \A i \in LinesNaming(n) :
                        DefLinesAt(i) \cap {line \in DefLinesAt(i) : line.name = n}
                            = {DefLine(env.name, n, env.definitions[n].bytecode)}

\* `A { def a = f; }`: the alias a has a `def A@a equ 0` line.
C19_AliasLine ==
    /\ EnvironmentDone
    /\ ce_stmts = <<StmtDefinition("a", AliasOf(<<>>, "f", <<>>))>>
    /\ RootLines = <<DefLine(ce_root.name, "a", 0)>>
    /\ environment_table[ce_root.name].definitions["a"].kind = "Alias"

\* ========================================================================
\* Properties of type promotion (SpecTy)
\* ========================================================================
\* C20: Type::from(l, r) = Type::from(r, l) and Type::from(l, l) = l; the
\* result is signed exactly if l or r is, and its size is the greater of
\* the two sizes.
C20_PromotionLaws ==
    ty_pc = "done" =>
        /\ ty_from.lr = ty_from.rl
        /\ ty_from.ll = ty_l
        /\ ty_from.lr.signed = (ty_l.signed \/ ty_r.signed)
        /\ ty_from.lr.size \in {ty_l.size, ty_r.size}
        /\ ty_from.lr.size >= ty_l.size
        /\ ty_from.lr.size >= ty_r.size

\* u16 promoted with i8 gives i16, whichever comes first.
C20_MixedOperands ==
    /\ ty_pc = "done"
    /\ ty_l = Type(FALSE, 2)
    /\ ty_r = Type(TRUE, 1)
    /\ ty_from.lr = Type(TRUE, 2)
    /\ ty_from.rl = Type(TRUE, 2)

\* ========================================================================
\* Properties of the references of an Expr (SpecEx)
\* ========================================================================
\* The positions (OpRef, counted from 0) an op refers to.
RefsOf(op) ==
    IF op.op \in {"Number", "Variable"} THEN {}
    ELSE IF op.op \in {"Neg", "Deref"} THEN {op.i}
    ELSE IF op.op = "Call" THEN {op.refs[k] : k \in DOMAIN op.refs}
    ELSE {op.l, op.r}

\* C21: in every Expr built, the op at position i (counted from 0, as
\* OpRef counts) refers to positions below i only.
C21_ReferencesBackward ==
    \A e \in DOMAIN ex_stack : \A p \in DOMAIN ex_stack[e] :
        \A ref \in RefsOf(ex_stack[e][p]) : ref < p - 1

\* -x: the Neg at position 1 refers to position 1, itself.
C21_SelfReference ==
    /\ ex_last.op = "Neg"
    /\ ex_last.operands = <<ExprFrom(OpVariable("x"))>>
    /\ ex_last.result = <<OpVariable("x"), [op |-> "Neg", i |-> 1]>>

\* The position (counted from 0) in the result of the last constructor of
\* the root of its k-th operand: the operands of binary_op lie in the
\* result in their order, those of func_call as first, last, .., second.
RootInResult(k) ==
    LET args == ex_last.operands
        n == Len(args)
        start == IF ex_last.op = "Call" /\ k > 1
                 THEN Len(args[1]) + Len(ConcatReversed(args, n - k))
                 ELSE Len(ConcatReversed(args, n)) - Len(ConcatReversed(args, n + 1 - k))
    IN  start + Len(args[k]) - 1

\* The last constructor has added an operator over its operands.
LastAddedOperator ==
    /\ ex_last.op \in {"Add", "Call"}
    /\ Len(ex_last.result) = Len(ConcatReversed(ex_last.operands, Len(ex_last.operands))) + 1

\* C22: the operator binary_op or func_call adds refers, for its k-th
\* operand, to the position the root of that operand has in the result,
\* and the operand's ops stand in the result up to that position.
C22_RefsAreOperandRoots ==
    LastAddedOperator =>
        LET added == ex_last.result[Len(ex_last.result)]
            ref(k) == IF ex_last.op = "Call" THEN added.refs[k]
                      ELSE IF k = 1 THEN added.l ELSE added.r
        IN  \A k \in DOMAIN ex_last.operands :
               /\ SubSeq(ex_last.result, RootInResult(k) + 2 - Len(ex_last.operands[k]),
                         RootInResult(k) + 1) = ex_last.operands[k]
               /\ ref(k) = RootInResult(k)

\* x + 3: the ops are x, 3, Add; Add refers to positions 1 and 1, the root
\* of its left operand x is at position 0.
C22_LeftRefPastRoot ==
    /\ ex_last.op = "Add"
    /\ ex_last.operands = <<ExprFrom(OpVariable("x")), ExprFrom(OpNumber(3))>>
    /\ ex_last.result = <<OpVariable("x"), OpNumber(3), [op |-> "Add", l |-> 1, r |-> 1]>>
    /\ RootInResult(1) = 0

\* ========================================================================
\* Properties of the lowering of Not (SpecFn)
\* ========================================================================
\* The last statement was the expression statement `!x`, and compile_statement
\* has returned.
LastIsNot ==
    /\ fn_pc \in {"running", "failed"}
    /\ fn_last.stmt.kind = "Expression"
    /\ fn_last.stmt.rpn.kind = "Not"

\* C23: in the environment T, which holds the definitions of std, `!x`
\* is lowered whenever x is, x has a value and the frame has room for two
\* more variables of its type: after the lines of x come one put of $FF
\* into a fresh slot and one instruction of the bxor family with the
\* operands (result, x, constant).
C23_NotLowers ==
    LastIsNot =>
        LET x == CompileExpression(fn_last.stmt.rpn.i, fn_env, fn_last.before, <<>>)
            t == type_of(x.vt, x.val.v)
            ff == alloc(x.vt, t)
            result == alloc(ff.table, t)
        IN  (x.status = "ok" /\ x.val.some /\ ff.ok /\ result.ok) =>
                /\ fn_last.status = "ok"
                /\ fn_last.val = SomeVal(result.val)
                /\ StmtLines = x.out \o
                      <<DbLine(fn_env.name \o "@put_" \o TypeDisplay(t), <<ff.val>>, "$FF"),
                        DbLine(fn_env.name \o "@bxor_" \o TypeDisplay(t),
                               <<result.val, x.val.v, ff.val>>, "")>>

\* `u8 x; !x;` in T: the put of $FF is written, then the opcode xor_u8 is
\* not found.
C23_XorNotFound ==
    /\ LastIsNot
    /\ fn_env.name = "T"
    /\ "bxor_u8" \in DirectNames(fn_env.definitions)
    /\ fn_last.stmt.rpn.i = RpnVariable("x")
    /\ lookup(fn_last.before, "x").ok
    /\ fn_pc = "failed"
    /\ fn_last.err = "Definition of xor_u8 not found"
    /\ StmtLines = <<DbLine("T@put_u8", <<1>>, "$FF")>>

\* ========================================================================
\* Properties of the calls of macros and aliases (SpecFn)
\* ========================================================================
\* The last statement was a call of a definition of the given kind that
\* was lowered.
LastCallLowered(kind) ==
    /\ LastIsCall
    /\ Callee.kind = kind
    /\ fn_pc = "running"
    /\ fn_last.status = "ok"

\* The call arguments of the last statement lowered one after the other,
\* starting from the table the scan of the callee's formals leaves.
AllArgsLowered ==
    LowerArgs([k \in DOMAIN CallArgs |-> ParamType("u8")], 1, 0, CallArgs, NoneVal, <<>>,
              fn_env, ScanFormals(Callee.args, 1, 0, NoneVal, fn_last.before).vt, <<>>)

\* The operands of a line that do not stand at the position of a Return
\* formal of the callee.
ArgOperands(line) ==
    LET kept == DOMAIN line.operands \ ReturnFormals(Callee)
        nth(k) == CHOOSE p \in kept : Cardinality({q \in kept : q < p}) = k - 1
    IN  [k \in 1..Cardinality(kept) |-> line.operands[nth(k)]]

\* C24: a call of a Macro that is lowered writes the lines of all its
\* arguments, lowered in argument order, and then one line that holds the
\* macro's target text and the slot of every argument in argument order,
\* those of a varargs Macro beyond its formals included.
C24_MacroLineHoldsAllArgs ==
    LastCallLowered("Macro") =>
        LET line == StmtLines[Len(StmtLines)] IN
        /\ AllArgsLowered.status = "ok"
        /\ StmtLines = Append(AllArgsLowered.out, line)
        /\ line.kind = "macro"
        /\ line.opcode = Callee.target
        /\ ArgOperands(line) = AllArgsLowered.arg_ids

\* `mv(1, x)` with mv a varargs Macro of one formal: the line of the macro
\* holds the slot of the first argument alone.
C24_VarargsDropped ==
    /\ LastCallLowered("Macro")
    /\ Callee.varargs
    /\ Len(Callee.args) = 1
    /\ CallArgs = <<RpnSigned(1), RpnVariable("x")>>
    /\ Len(StmtLines) = 2
    /\ StmtLines[2].kind = "macro"
    /\ Len(StmtLines[2].operands) = 1

\* The formals of the callee lowered as the call does it (the slot of the
\* call argument for a Type formal, the Return slot for a Return formal),
\* and then the expressions of its substitution list.
FormalsLowered ==
    LET scan == ScanFormals(Callee.args, 1, 0, NoneVal, fn_last.before) IN
    LowerArgs(Callee.args, 1, 0, CallArgs, scan.ret, <<>>, fn_env, scan.vt, <<>>)
TargetArgsLowered ==
    LowerTargetArgs(Callee.target_args, 1, <<>>, fn_env, FormalsLowered.vt, FormalsLowered.out)

\* The lines of a lowered Alias call are those of its arguments and of the
\* expressions of its substitution list, then one instruction of the Direct
\* definition the alias resolves to with one operand per substitution
\* entry, given by slotOf; the call yields the Return slot of the alias, or
\* nothing.
AliasInstruction(slotOf(_)) ==
    LET line == StmtLines[Len(StmtLines)]
        scan == ScanFormals(Callee.args, 1, 0, NoneVal, fn_last.before)
    IN  /\ StmtLines = Append(TargetArgsLowered.out, line)
        /\ \E d \in DirectNames(fn_env.definitions) :
              /\ expand(fn_env, Callee.target).val = fn_env.name \o "@" \o d
              /\ line = DbLine(fn_env.name \o "@" \o d, line.operands, "")
        /\ DOMAIN line.operands = DOMAIN Callee.target_args
        /\ \A k \in DOMAIN Callee.target_args : line.operands[k] = slotOf(k)
        /\ fn_last.val = scan.ret
        /\ fn_last.val.some = (ReturnFormals(Callee) # {})

\* The slot a substitution entry stands for when a placeholder counts the
\* formals of the alias, and when it counts the call arguments.
SlotByFormal(k) ==
    IF Callee.target_args[k].kind = "ArgId"
    THEN FormalsLowered.arg_ids[Callee.target_args[k].index]
    ELSE TargetArgsLowered.alias_ids[k].index
SlotByArgument(k) ==
    IF Callee.target_args[k].kind = "ArgId"
    THEN IF Callee.target_args[k].index \in 1..Len(CallArgs)
         THEN ArgOperands([operands |-> FormalsLowered.arg_ids])[Callee.target_args[k].index]
         ELSE 0 - 1
    ELSE TargetArgsLowered.alias_ids[k].index

\* C25 (as the code has it): a lowered call of an Alias writes one
\* instruction of the Direct definition the alias resolves to; a placeholder
\* n stands for the slot of the n-th formal of the alias, which is the
\* Return slot when that formal is the Return parameter, and an expression
\* entry stands for the slot the expression was lowered to.
C25_AliasOperandsByFormal == LastCallLowered("Alias") => AliasInstruction(SlotByFormal)

\* C25 as stated: a placeholder n stands for the slot of the n-th call
\* argument.
C25_AliasOperandsByArgument == LastCallLowered("Alias") => AliasInstruction(SlotByArgument)

\* `ar(1)` with `ar(return u8, u8) = dr($1, $2)`: placeholder 1 is the
\* Return slot 0, placeholder 2 the slot 1 of the only call argument.
C25_ReturnPlaceholder ==
    /\ LastCallLowered("Alias")
    /\ fn_last.stmt.rpn = RpnCall("ar", <<RpnSigned(1)>>)
    /\ fn_last.lines = 1
    /\ StmtLines[Len(StmtLines)] = DbLine("T@dr", <<0, 1>>, "")
    /\ fn_last.val = SomeVal(0)

\* The name on which the alias chain of a name ends: the first name of the
\* chain that is not an Alias, or "" when the chain leaves the definitions
\* or has not ended after fuel steps.
RECURSIVE ChainEnd(_, _, _)
ChainEnd(defs, name, fuel) ==
    IF name \notin DOMAIN defs THEN ""
    ELSE IF defs[name].kind # "Alias" THEN name
    ELSE IF fuel = 0 THEN ""
    ELSE ChainEnd(defs, defs[name].target, fuel - 1)

\* C26: the resolution of a name whose alias chain ends on a Macro fails
\* with "<macro> may not be a macro", and the resolution of a name whose
\* chain ends on a Direct definition returns the name of that definition
\* qualified by the environment. (The environment of a function does not
\* change while its body is compiled: every name is resolved at the entry
\* of the function, and the name of a call after the call.)
C26_ExpandEndsOfChain ==
    \A name \in IF fn_count = 0 THEN DOMAIN fn_env.definitions
                 ELSE IF LastIsCall THEN {fn_last.stmt.rpn.name} ELSE {} :
        LET end == ChainEnd(fn_env.definitions, name, Cardinality(DOMAIN fn_env.definitions))
            r == expand(fn_env, name)
        IN  /\ (end # "" /\ fn_env.definitions[end].kind = "Macro") =>
                (r.status = "err" /\ r.err = end \o " may not be a macro")
            /\ (end # "" /\ fn_env.definitions[end].kind = "Def") =>
                (r.status = "ok" /\ r.val = fn_env.name \o "@" \o end)

\* A call of `am`, an alias of the macro m1, has failed at the resolution
\* of its opcode, and the function before it has lowered a call of an
\* alias of a Direct definition.
C26_AliasOfMacroCalled ==
    /\ LastIsCall
    /\ fn_last.stmt.rpn.name = "am"
    /\ fn_pc = "failed"
    /\ fn_last.err = "m1 may not be a macro"
    /\ expand(fn_env, "add_i8").val = "T@add_u8"

\* C27: no statement of a function body makes type_of or name_of panic
\* with "Variable index <i> does not exist", and the slot a statement
\* yields is an address at which a variable of the table starts.
C27_NoIndexPanic ==
    /\ fn_last.status = "panic" => \A i \in 0..(FrameSize - 1) : fn_last.err # IndexPanic(i)
    /\ (fn_last.status = "ok" /\ fn_last.val.some) => SlotExists(variables, fn_last.val.v)

\* After `u8 x;` the statement `x + 1` is lowered: type_of was called with
\* the address lookup returned for x and with the address alloc returned
\* for the constant, and name_of with the address alloc returned for x.
C27_TypeOfLookupAndAlloc ==
    /\ LastIsBinary
    /\ fn_last.stmt.rpn = RpnBinary("Add", RpnVariable("x"), RpnSigned(1))
    /\ lookup(fn_last.before, "x") = Ok(0)
    /\ StmtLines[Len(StmtLines)].operands = <<2, 0, 1>>
    /\ \A i \in 0..2 : SlotExists(variables, i)

\* C28: the resolution of every name of the environment ends, with a
\* qualified name or with an error, and no statement of a function body is
\* left without an end by it.
C28_ExpandTerminates ==
    /\ \A name \in DOMAIN fn_env.definitions \cup {"missing"} :
          expand(fn_env, name).status \in {"ok", "err"}
    /\ fn_pc # "diverged"

\* A call `ac()` of the alias `ac() = ac($1)`: its opcode is resolved by
\* following ac to ac without end; nothing is written and the statement
\* never returns.
C28_SelfAliasCalled ==
    /\ LastIsCall
    /\ fn_last.stmt.rpn = RpnCall("ac", <<>>)
    /\ fn_env.definitions["ac"].target = "ac"
    /\ fn_last.status = "diverged"
    /\ fn_pc = "diverged"
    /\ Len(fn_out) = fn_last.lines

\* C29: a call of an Alias whose substitution list holds the placeholder 0
\* is rejected with an error, and never ends in a panic of the write loop.
C29_ZeroPlaceholderRejected ==
    (LastIsCall /\ Callee.kind = "Alias" /\ ZeroPlaceholders # {}) =>
        fn_last.status = "err"

\* `az(1)` with `az(u8) = d1($0)`: the call got as far as writing its
\* line, took `arg_ids[0 - 1]` and panicked; the line of the argument is
\* all that was written.
C29_ZeroPlaceholderPanics ==
    /\ LastIsCall
    /\ fn_last.stmt.rpn = RpnCall("az", <<RpnSigned(1)>>)
    /\ AliasLineStarted
    /\ ZeroPlaceholders = {1}
    /\ fn_last.status = "panic"
    /\ fn_pc = "panicked"
    /\ fn_last.err = ""

\* ========================================================================
\* Properties of the root iterator (SpecIn)
\* ========================================================================
\* The roots of a file from its 1-based position k on, in source order,
\* the roots of an included file standing in place of its Include.
RECURSIVE RootsInOrder(_, _)
RootsInOrder(path, k) ==
    IF k > Len(disk[path]) THEN <<>>
    ELSE (IF disk[path][k].kind = "Include"
          THEN RootsInOrder(disk[path][k].path, 1)
          ELSE <<SomeRoot(path, k - 1)>>) \o RootsInOrder(path, k + 1)

\* C30: the calls of next() on the iterator over the root file return the
\* non-Include roots of the root file in source order, those of an
\* included file in place of its Include, and then None at every call.
C30_RootsInSourceOrder ==
    in_pc = "iterating" =>
        LET expected == RootsInOrder("a", 1) IN
        \A k \in DOMAIN in_ret :
            in_ret[k] = IF k <= Len(expected) THEN expected[k] ELSE NoneRoot

\* The root file is `<env>; include "b"; <env>`, b is `include "c"; <env>`
\* and c is `<env>`: the iterator has returned a's first root, c's root,
\* b's root, a's last root, and None twice.
C30_NestedIncludeIterated ==
    /\ in_pc = "iterating"
    /\ disk["a"] = <<OtherRoot, IncludeOf("b"), OtherRoot>>
    /\ disk["b"] = <<IncludeOf("c"), OtherRoot>>
    /\ in_ret = <<SomeRoot("a", 0), SomeRoot("c", 0), SomeRoot("b", 1), SomeRoot("a", 2),
                  NoneRoot, NoneRoot>>
    /\ file_stack = <<>>

====
